---- MODULE Spec2Model ----
(***************************************************************************)
(* A model of the PowerSync service sync pipeline.                         *)
(*                                                                         *)
(*  SpecSync   one streaming connection (streamResponseInner,              *)
(*             bucketDataInBatches, bucketDataBatch, BucketChecksumState)  *)
(*             against a storage whose op log and checkpoint advance.      *)
(*  SpecBatch  two MongoBucketBatch instances sharing the op_id sequence   *)
(*             and the replication mutex (flush, truncate, commit,         *)
(*             keepalive, markSnapshotDone).                               *)
(*                                                                         *)
(* The other specifications each drive one component on its own: the       *)
(* replay of source transactions, the retries of a replication             *)
(* transaction, the Demultiplexer, the ChecksumCache, the connection       *)
(* semaphore, BucketChecksumState, the row operations of a batch, the      *)
(* KeyStore, the migration agent and ChangeStreamReplicationJob. They      *)
(* share the variables; each leaves the variables of the others alone.     *)
(***************************************************************************)
EXTENDS Integers, Sequences, FiniteSets, TLC

(***************************************************************************)
(* Bounds of the model.                                                    *)
(***************************************************************************)
\* Number of entries the storage op log may hold.
MaxOp == 4
\* Highest write checkpoint the storage hands out to the user.
MaxWriteCp == 1
\* Rows one getBucketDataBatch query returns (options.limit, scaled down).
BatchLimit == 2
\* syncedOperations needed before the stream races for a new checkpoint
\* (1000 in sync.ts line 159, scaled down to the size of the model).
MinRaceOps == 2

\* The value null of the program.
NULL == 0

Buckets == {"a", "b", "c"}
\* ORDER BY bucket_name ASC of getBucketDataBatch.
BucketOrder == <<"a", "b", "c">>
\* A log entry that changes the parameter lookups of the user instead of a bucket.
ParamOp == "$p"
\* Bucket the parameter query of the user resolves to while it has a result.
DynamicCandidates == {"b"}

\* Bucket priorities the sync rules may assign (0 is the highest priority).
PriorityMaps ==
    { [a |-> 0, b |-> 0, c |-> 3] }

\* What replication may write as its n-th operation: the model explores every
\* log built from these choices, every prefix of it and every commit point.
Workload ==
    << {"c", "b"}, {"c", ParamOp}, {"a", ParamOp}, {"b"}, {"a", "c"}, {"b"} >>

VARIABLES
    \* ---- storage, as seen by the sync stream
    opLog,          \* op_id i |-> bucket of the op (or ParamOp)
    storageCp,      \* last_checkpoint of the active sync rules
    writeCp,        \* write checkpoint of the user
    watchLast,      \* what watchCheckpointChanges yielded last: [first, cp, wcp]
    \* ---- sync rules of the connection
    priority,       \* bucket |-> priority
    hasDynamic,     \* querier.hasDynamicBuckets
    maxBuckets,     \* context.maxBuckets
    \* ---- streamResponseInner / bucketDataInBatches / bucketDataBatch
    pc,
    nextPromise,    \* nextCheckpointPromise: "none" | "race" | "resolved"
    raceValue,      \* the result the speculative next() resolved to
    cur,            \* next.value of the current loop iteration
    groups,         \* bucketsByPriority, as the sequence of its priorities
    fetch,          \* line.bucketsToFetch
    gi,             \* index into groups of the priority loop
    abortCtl,       \* abortCheckpointController.signal.aborted
    connAborted,    \* signal.aborted
    didCompletePartialSync,
    syncedOperations,
    isDone,         \* bucketDataInBatches
    chunks,         \* what is left of the getBucketDataBatch iteration
    curChunk,       \* the chunk just yielded
    hasMore,        \* has_more of bucketDataBatch
    checkpointInvalidated,
    \* ---- BucketChecksumState
    bucketDataPositions,
    lastChecksums,
    lastWriteCheckpoint,
    pendingBucketDownloads,
    cachedDynamicBuckets,
    raised,         \* what buildNextCheckpointLine threw last: "none" or the error
    \* ---- what the client observed
    lastFrame,      \* the frame emitted last
    lineFrames,     \* what the generators yielded since the last checkpoint line
    sentOps,        \* bucket |-> op_ids of all data frames so far
    clientData,     \* bucket |-> op_ids the client holds: a bucket a line removes is dropped
    clientMap,      \* the checkpoint lines applied to an empty map
    \* ---- the storage database of MongoBucketBatch
    opIdSequence,   \* op_id_sequence document 'main': op_id
    bucketOps,      \* the op_ids of the committed bucket ops, in commit order
    currentData,    \* group |-> number of current_data rows of its table
    sourceTables,   \* groups whose source_tables record exists
    syncRulesDoc,   \* group |-> its sync_rules document
    replicationMutex, \* the batch holding the mutex, or 0
    \* ---- MongoBucketBatch instances (batch b replicates group b)
    batch,          \* this.batch: None, or the number of buffered operations
    persisted_op,
    last_checkpoint_lsn,
    no_checkpoint_before_lsn,
    needsActivation,
    bpc,            \* where the running call of the batch is
    call,           \* the running call: [name, lsn, createEmptyCheckpoints, keepalive]
    txn,            \* locals of the transaction loop: [kind, opSeq, flushTry, last_op, lastBatchCount]
    result,         \* what the last commit or keepalive returned, until the next call
    notified,       \* whether the last call of the batch called notifyCheckpoint
    \* ---- source transactions delivered to batch 1, record by record
    opBatch,        \* the records of this.batch, by their tag
    currentRows,    \* the rows of the source table that have a current_data document
    delivery,       \* the transaction being delivered: [tx, pos, lsn, again, startOps, startCp]
    delivered,      \* the <<transaction, lsn>> pairs whose commit created a checkpoint
    \* ---- one withReplicationTransaction call in detail
    rpc,            \* "idle" | "callback" (the driver is about to run it) | "body" | "done" | "failed"
    flushTry,
    elapsed,        \* Date.now() - start, in ms
    attemptAt,      \* elapsed when the running attempt tested its limits
    thrown,         \* the error the call failed with, or "none"
    \* ---- Demultiplexer
    subscribers,    \* this.subscribers: NULL (undefined) or the id of the map of sinks
    abortController, \* this.abortController: NULL or the id of the controller
    currentSource,  \* this.currentSource: NULL or the id of the source
    sinkMaps,       \* map id |-> [key |-> the sinks registered for it]
    aborted,        \* controller id |-> signal.aborted
    upstream,       \* source id |-> "none" | "running" | "ended" | "errored" | "stopped"
    started,        \* number of times the source factory was invoked
    nextValue,      \* the next value the upstream iterators emit
    spc,            \* subscriber |-> "idle" | "first" | "live" | "ended" | "failed" | "cancelled"
    skey,           \* subscriber |-> its key
    ssource,        \* subscriber |-> the source addSink returned
    sink,           \* subscriber |-> its LastValueSink: [value, closed]
    received,       \* subscriber |-> the values its iteration yielded
    missed,         \* subscriber |-> [value: the latest value for its key emitted
                    \* since it subscribed that it has not been given yet,
                    \* early: that value came while getFirstValue was pending]
    \* ---- ChecksumCache over the bucket_data table
    bucket_data,    \* op_id |-> [bucket, op]: the rows of bucket_data
    cache,          \* bucket |-> checkpoint |-> the entry of the cache
    inflight,       \* caller |-> the batch its fetchChecksums call is computing
    calls,          \* caller |-> its getChecksums call: [pc, checkpoint, buckets]
    \* ---- syncSemaphore and the bucketDataBatch executions of all connections
    semValue,       \* the permits of syncSemaphore that are free
    dpc,            \* connection |-> "idle" | "waiting" | "running" | "yielded"
    held,           \* connection |-> the permits its bucketDataBatch holds
    abort_batch,    \* connection |-> abort_batch.aborted
    outcome,        \* connection |-> how its last bucketDataBatch ended
    \* ---- streamResponse: the parent signal, its controller and the merged streams
    signalAborted,  \* options.signal.aborted
    controllerAborted, \* controller.signal.aborted
    spr,            \* streamResponse: "unstarted" | "streaming" | "returned" | "threw"
    inner,          \* streamResponseInner: "running" | "waiting" | "failed" | "unwound"
    ki,             \* tokenStream: "running" | "ended" | "unwound"
    linesOut,       \* the lines streamResponse has yielded
    failure,        \* what merged threw: "none" | "AbortError" | "Error"
    \* ---- MongoBucketBatch, row by row: saveOperation and truncateSingle
    current_data,   \* replica id |-> [data, buckets, lookups]: the current_data documents
    bucket_ops,     \* the bucket ops written, in op_id order: [op, bucket, key]
    bucket_parameters, \* the parameter rows: << lookup, source key >>
    records,        \* this.batch: the records saved and not flushed yet
    sourceRows,     \* replica id |-> the row, for the rows the source table holds
    reported,       \* number of messages given to the error reporter
    rowpc,          \* "idle" | "flush" | "truncate_flush" | "truncate" | "failed"
    lastBatchCount, \* of truncateSingle
    truncating,     \* what the last truncateSingle started from: [rows, ops]
    produced,       \* number of records and truncates the source produced
    storeCurrentData,\* this.storeCurrentData
    \* ---- KeyStore: one getCachedKey call
    kpc,
    keyCall,
    keyResult,
    refreshed,
    \* ---- AbstractMigrationAgent over its MigrationStore
    migrations,    \* [...internalMigrations, ...params.migrations], by name
    mstore,    \* the MigrationStore: [defined, last_run, log of [name, direction, timestamp]]
    applied,    \* the migrations whose up() ran last: what the database holds
    clock,    \* new Date().getTime()
    mpc,    \* "new" | "idle" | "running" | "exited"
    mrun,   \* the running run: [direction, count, queue, i, log, error]
    \* ---- ChangeStreamReplicationJob.replicate
    jpc,    \* "idle" | "loop" | "attempt" | "end" | "delay" | "restart" | "returned"
    jaborted,    \* this.abortController.signal.aborted
    jthrown,    \* the error replicateOnce is throwing while its finally block runs, or "none"
    jlog,    \* how each attempt ended: "returned" | "invalidated" | "other"
    restartCalls    \* calls of storage.factory.restartReplication(group_id)

streamVars ==
    << opLog, storageCp, writeCp, watchLast, priority, hasDynamic, maxBuckets,
       pc, nextPromise, raceValue, cur, groups, fetch, gi, abortCtl, connAborted,
       didCompletePartialSync, syncedOperations, isDone, chunks, curChunk, hasMore,
       checkpointInvalidated, bucketDataPositions, lastChecksums,
       lastWriteCheckpoint, pendingBucketDownloads, cachedDynamicBuckets, raised,
       lastFrame, lineFrames, sentOps, clientData, clientMap >>

mongoVars ==
    << opIdSequence, bucketOps, currentData, sourceTables, syncRulesDoc,
       replicationMutex, batch, persisted_op,
       last_checkpoint_lsn, no_checkpoint_before_lsn, needsActivation,
       bpc, call, txn, result, notified >>

replayVars == << opBatch, currentRows, delivery, delivered >>
retryVars == << rpc, flushTry, elapsed, attemptAt, thrown >>
demuxVars ==
    << subscribers, abortController, currentSource, sinkMaps, aborted, upstream,
       started, nextValue, spc, skey, ssource, sink, received, missed >>
cacheVars == << bucket_data, cache, inflight, calls >>
semVars == << semValue, dpc, held, abort_batch, outcome >>
respVars == << signalAborted, controllerAborted, spr, inner, ki, linesOut, failure >>

rowVars ==
    << current_data, bucket_ops, bucket_parameters, records, sourceRows, reported,
       rowpc, lastBatchCount, truncating, produced, storeCurrentData >>

keyVars == << kpc, keyCall, keyResult, refreshed >>
migVars == << migrations, mstore, applied, clock, mpc, mrun >>
jobVars == << jpc, jaborted, jthrown, jlog, restartCalls >>
\* What the steps of MongoBucketBatch leave alone, and what the steps of the
\* sync stream leave alone.
syncVars == << streamVars, replayVars, retryVars, demuxVars, cacheVars, semVars, respVars, rowVars, keyVars, migVars, jobVars >>
bvars == << mongoVars, replayVars, retryVars, demuxVars, cacheVars, semVars, respVars, rowVars, keyVars, migVars, jobVars >>
\* What the steps of each of the other specifications leave alone.
replayRest == << streamVars, retryVars, demuxVars, cacheVars, semVars, respVars, rowVars, keyVars, migVars, jobVars >>
retryRest == << streamVars, mongoVars, replayVars, demuxVars, cacheVars, semVars, respVars, rowVars, keyVars, migVars, jobVars >>
demuxRest == << streamVars, mongoVars, replayVars, retryVars, cacheVars, semVars, respVars, rowVars, keyVars, migVars, jobVars >>
cacheRest == << streamVars, mongoVars, replayVars, retryVars, demuxVars, semVars, respVars, rowVars, keyVars, migVars, jobVars >>
semRest == << streamVars, mongoVars, replayVars, retryVars, demuxVars, cacheVars, respVars, rowVars, keyVars, migVars, jobVars >>
respRest == << streamVars, mongoVars, replayVars, retryVars, demuxVars, cacheVars, semVars, rowVars, keyVars, migVars, jobVars >>

rowRest == << streamVars, mongoVars, replayVars, retryVars, demuxVars, cacheVars, semVars, respVars, keyVars, migVars, jobVars >>
keyRest == << streamVars, mongoVars, replayVars, retryVars, demuxVars, cacheVars, semVars, respVars, rowVars, migVars, jobVars >>
migRest == << streamVars, mongoVars, replayVars, retryVars, demuxVars, cacheVars, semVars, respVars, rowVars, keyVars, jobVars >>
jobRest == << streamVars, mongoVars, replayVars, retryVars, demuxVars, cacheVars, semVars, respVars, rowVars, keyVars, migVars >>
vars == << streamVars, mongoVars, replayVars, retryVars, demuxVars, cacheVars, semVars, respVars, rowVars, keyVars, migVars, jobVars >>

(***************************************************************************)
(* Storage: the op log, checksums and the bucket data query.               *)
(***************************************************************************)
Min(x, y) == IF x <= y THEN x ELSE y
Max(x, y) == IF x >= y THEN x ELSE y

\* The largest int32.
INT32_MAX == 2147483647

\* 32-bit two's-complement addition of two int32 values.
Add32(x, y) ==
    IF x >= 0 /\ y >= 0 /\ x > INT32_MAX - y
      THEN (x - INT32_MAX - 1) + (y - INT32_MAX - 1)
    ELSE IF x < 0 /\ y < 0 /\ x < (0 - INT32_MAX - 1) - y
      THEN (x + INT32_MAX + 1) + (y + INT32_MAX + 1)
    ELSE x + y

\* Checksum unit: op i carries i times this value, wrapped to 32 bits.
ChecksumSeed == 1500000001

RECURSIVE OpChecksum(_)
\* The 32-bit checksum stored with op i.
OpChecksum(i) == IF i = 0 THEN 0 ELSE Add32(OpChecksum(i - 1), ChecksumSeed)

\* op_ids of bucket b in (after, upto], ascending (ORDER BY op_id ASC).
OpsOf(b, after, upto) ==
    SelectSeq([i \in 1..Min(upto, Len(opLog)) |-> i],
              LAMBDA i : opLog[i] = b /\ i > after)

RECURSIVE SumChecksums(_)
SumChecksums(ops) ==
    IF ops = <<>> THEN 0
    ELSE Add32(OpChecksum(Head(ops)), SumChecksums(Tail(ops)))

\* BucketChecksum of bucket b at a checkpoint: count and sum mod 2^32 of (0, cp].
BucketChecksum(cp, b) ==
    [checksum |-> SumChecksums(OpsOf(b, 0, cp)), count |-> Len(OpsOf(b, 0, cp))]

getChecksums(cp, buckets) == [b \in buckets |-> BucketChecksum(cp, b)]

\* The buckets the parameter query of the user yields at a checkpoint: each
\* replicated parameter change removes the row the query matches, or adds it back.
getParameterSets(cp) ==
    IF Len(OpsOf(ParamOp, 0, cp)) % 2 = 0 THEN DynamicCandidates ELSE {}

RECURSIVE RowsFrom(_, _, _)
\* The rows of the query, bucket by bucket in name order.
RowsFrom(k, cp, positions) ==
    IF k > Len(BucketOrder) THEN <<>>
    ELSE (IF BucketOrder[k] \in DOMAIN positions
            THEN OpsOf(BucketOrder[k], positions[BucketOrder[k]], cp)
            ELSE <<>>) \o RowsFrom(k + 1, cp, positions)

\* ... ORDER BY bucket_name ASC, op_id ASC LIMIT batchRowLimit
QueryRows(cp, positions) ==
    LET all == RowsFrom(1, cp, positions)
    IN  SubSeq(all, 1, Min(Len(all), BatchLimit))

\* target_op of op i: when the bucket was compacted, an op superseded by a
\* later op of its bucket is a MOVE op whose target_op is the latest op of
\* the bucket; NULL otherwise.
TargetOp(i, compacted) ==
    LET later == OpsOf(opLog[i], i, Len(opLog))
    IN  IF compacted /\ later # << >> THEN later[Len(later)] ELSE NULL

RECURSIVE MaxTarget(_, _)
MaxTarget(ops, compacted) ==
    IF ops = << >> THEN NULL
    ELSE Max(TargetOp(Head(ops), compacted), MaxTarget(Tail(ops), compacted))

RECURSIVE ChunksFrom(_, _, _, _)
\* One chunk per bucket that has rows; only the final chunk can have has_more,
\* which is set when the query returned as many rows as its limit.
ChunksFrom(k, rows, positions, compacted) ==
    IF k > Len(BucketOrder) THEN << >>
    ELSE LET b    == BucketOrder[k]
             mine == SelectSeq(rows, LAMBDA i : opLog[i] = b)
             rest == ChunksFrom(k + 1, rows, positions, compacted)
         IN  IF mine = << >> THEN rest
             ELSE << [bucket     |-> b,
                      after      |-> positions[b],
                      data       |-> mine,
                      next_after |-> mine[Len(mine)],
                      has_more   |-> rest = << >> /\ Len(rows) >= BatchLimit,
                      targetOp   |-> MaxTarget(mine, compacted)] >> \o rest

getBucketDataBatch(cp, positions, compacted) ==
    IF DOMAIN positions = {} THEN << >>
    ELSE ChunksFrom(1, QueryRows(cp, positions), positions, compacted)

(***************************************************************************)
(* BucketParameterState and BucketChecksumState.                           *)
(***************************************************************************)
\* context.maxBuckets
MaxBucketsPerConnection == 3

\* querier.staticBuckets
staticBuckets == IF hasDynamic THEN Buckets \ DynamicCandidates ELSE Buckets

\* The symbol INVALIDATE_ALL_BUCKETS, and a set of updated buckets.
INVALIDATE_ALL_BUCKETS == [all |-> TRUE, set |-> {}]
UpdatedSet(S) == [all |-> FALSE, set |-> S]

\* getCheckpointUpdateStatic that forgets to pass on the updated buckets.
getCheckpointUpdateStatic_NoUpdated(next) ==
    [buckets |-> staticBuckets,
     updatedBuckets |-> IF next.invalidateDataBuckets THEN INVALIDATE_ALL_BUCKETS
                        ELSE UpdatedSet({}),
     cached |-> cachedDynamicBuckets]

getCheckpointUpdateStatic(next) ==
    IF next.invalidateDataBuckets
    THEN [buckets |-> staticBuckets, updatedBuckets |-> INVALIDATE_ALL_BUCKETS,
          cached |-> cachedDynamicBuckets]
    ELSE [buckets |-> staticBuckets,
          updatedBuckets |-> UpdatedSet(staticBuckets \cap next.updatedDataBuckets),
          cached |-> cachedDynamicBuckets]

getCheckpointUpdateDynamic(next) ==
    LET hasParameterChange ==
            next.invalidateParameterBuckets \/ next.updatedParameterLookups
        requery == hasParameterChange \/ cachedDynamicBuckets.null
        dynamicBuckets ==
            IF requery THEN getParameterSets(next.cp) ELSE cachedDynamicBuckets.set
        invalidateDataBuckets == next.invalidateDataBuckets \/ requery
    IN  [buckets |-> staticBuckets \cup dynamicBuckets,
         updatedBuckets |->
            IF invalidateDataBuckets THEN INVALIDATE_ALL_BUCKETS
            ELSE UpdatedSet((staticBuckets \cap next.updatedDataBuckets)
                            \cup (dynamicBuckets \cap next.updatedDataBuckets)),
         cached |-> [null |-> FALSE, set |-> dynamicBuckets]]

getCheckpointUpdate(next) ==
    IF hasDynamic THEN getCheckpointUpdateDynamic(next)
    ELSE getCheckpointUpdateStatic(next)

\* util.checksumsDiff: the buckets that are new or whose checksum or count
\* changed, and the buckets that are gone.
checksumsDiff(previous, current) ==
    [updatedBuckets |-> {b \in DOMAIN current :
                            b \notin DOMAIN previous \/ previous[b] # current[b]},
     removedBuckets |-> DOMAIN previous \ DOMAIN current]

\* A line's bucket list: checksum, count and priority per bucket.
WithPriority(checksumMap, S) ==
    [b \in S |-> [checksum |-> checksumMap[b].checksum,
                  count    |-> checksumMap[b].count,
                  priority |-> priority[b]]]

\* The limit that lets every number of buckets through.
tooManyBuckets_Unlimited(dataBucketsNew) == FALSE

\* dataBucketsNew.size > this.context.maxBuckets
tooManyBuckets(dataBucketsNew) == Cardinality(DOMAIN dataBucketsNew) > maxBuckets

\* A diff whenever a write checkpoint was sent before.
hasLastChecksums_ByWriteCheckpoint == lastWriteCheckpoint # NULL

\* if (this.lastChecksums)
hasLastChecksums == ~lastChecksums.null

\* "No changes" that overlooks the buckets that are gone.
noChanges_IgnoreRemoved(writeCheckpoint, diff) ==
    lastWriteCheckpoint = writeCheckpoint /\ diff.updatedBuckets = {}

\* No changes - don't send anything to the client.
noChanges(writeCheckpoint, diff) ==
    /\ lastWriteCheckpoint = writeCheckpoint
    /\ diff.removedBuckets = {}
    /\ diff.updatedBuckets = {}

\* The buckets to fetch without those left from the checkpoint before.
generateBucketsToFetch_UpdatedOnly(diff, checksumMap) == diff.updatedBuckets

\* The updated buckets, and the buckets from a previous checkpoint that have
\* not been downloaded yet and that the checkpoint still has.
generateBucketsToFetch(diff, checksumMap) ==
    diff.updatedBuckets \cup (pendingBucketDownloads \cap DOMAIN checksumMap)

\* buildNextCheckpointLine, as the record of what it returns and assigns:
\* kind "none" (returns null), "line" or "error" (throws `error`).
buildNextCheckpointLine(next) ==
    LET update == getCheckpointUpdate(next)
        allBuckets == update.buckets
        updatedBuckets == update.updatedBuckets
        dataBucketsNew ==
            [b \in allBuckets |->
                IF b \in DOMAIN bucketDataPositions THEN bucketDataPositions[b] ELSE 0]
        base == [kind |-> "none", error |-> "none",
                 positions |-> dataBucketsNew, cached |-> update.cached,
                 checksums |-> lastChecksums, writeCheckpoint |-> lastWriteCheckpoint,
                 pending |-> pendingBucketDownloads, lineType |-> "none",
                 buckets |-> << >>, removed |-> {}, bucketsToFetch |-> {}]
        reused == {b \in allBuckets : b \notin updatedBuckets.set}
        missing == \/ lastChecksums.null
                   \/ \E b \in reused : b \notin DOMAIN lastChecksums.map
        checksumMap ==
            IF updatedBuckets.all THEN getChecksums(next.cp, allBuckets)
            ELSE [b \in allBuckets |->
                    IF b \in reused THEN lastChecksums.map[b]
                    ELSE BucketChecksum(next.cp, b)]
        diff == checksumsDiff(lastChecksums.map, checksumMap)
        bucketsToFetch == generateBucketsToFetch(diff, checksumMap)
    IN  IF tooManyBuckets(dataBucketsNew)
          THEN [base EXCEPT !.kind = "error", !.error = "PSYNC_S2305"]
        ELSE IF ~updatedBuckets.all /\ missing
          THEN [base EXCEPT !.kind = "error", !.error = "ServiceAssertionError"]
        ELSE IF hasLastChecksums
          THEN IF noChanges(next.wcp, diff)
                 THEN base
                 ELSE [base EXCEPT
                         !.kind = "line", !.lineType = "checkpoint_diff",
                         !.buckets = WithPriority(checksumMap, diff.updatedBuckets),
                         !.removed = diff.removedBuckets,
                         !.bucketsToFetch = bucketsToFetch,
                         !.checksums = [null |-> FALSE, map |-> checksumMap],
                         !.writeCheckpoint = next.wcp,
                         !.pending = bucketsToFetch]
          ELSE [base EXCEPT
                  !.kind = "line", !.lineType = "checkpoint",
                  !.buckets = WithPriority(checksumMap, allBuckets),
                  !.bucketsToFetch = allBuckets,
                  !.checksums = [null |-> FALSE, map |-> checksumMap],
                  !.writeCheckpoint = next.wcp,
                  !.pending = allBuckets]

\* getFilteredBucketPositions
getFilteredBucketPositions(bucketsToFetch) ==
    [b \in bucketsToFetch \cap DOMAIN bucketDataPositions |-> bucketDataPositions[b]]

\* updateBucketPosition that does not record next_after.
updateBucketPosition_Stale(bucket, nextAfter) == bucketDataPositions

\* updateBucketPosition: the new bucketDataPositions.
updateBucketPosition(bucket, nextAfter) ==
    IF bucket \in DOMAIN bucketDataPositions
    THEN [bucketDataPositions EXCEPT ![bucket] = nextAfter]
    ELSE bucketDataPositions

\* updateBucketPosition: the new pendingBucketDownloads.
updatePendingDownloads(bucket, chunkHasMore) ==
    IF ~chunkHasMore THEN pendingBucketDownloads \ {bucket} ELSE pendingBucketDownloads

(***************************************************************************)
(* The storage side of one connection: replication appends ops, commits    *)
(* publish a checkpoint.                                                   *)
(***************************************************************************)
StorageWrite(x) ==
    /\ Len(opLog) < Min(MaxOp, Len(Workload))
    /\ opLog' = Append(opLog, x)
    /\ UNCHANGED << storageCp, writeCp, watchLast >>

StorageCommit ==
    /\ storageCp < Len(opLog)
    /\ storageCp' = Len(opLog)
    /\ UNCHANGED << opLog, writeCp, watchLast >>

StorageWriteCheckpoint ==
    /\ writeCp < MaxWriteCp
    /\ writeCp' = writeCp + 1
    /\ UNCHANGED << opLog, storageCp, watchLast >>

\* watchCheckpointChanges yields when the checkpoint or the write checkpoint
\* of the user differ from what it yielded last (and once at the start).
HasUpdate ==
    watchLast.first \/ storageCp # watchLast.cp \/ writeCp # watchLast.wcp

\* The update it yields: everything invalidated (inv), or the buckets and
\* parameter lookups changed since the update before.
NextUpdate(inv) ==
    LET changed == {opLog[i] : i \in (watchLast.cp + 1)..storageCp}
    IN  [cp |-> storageCp, wcp |-> writeCp,
         invalidateDataBuckets |-> inv,
         invalidateParameterBuckets |-> inv,
         updatedDataBuckets |-> changed \cap Buckets,
         updatedParameterLookups |-> ParamOp \in changed]

Yielded == [first |-> FALSE, cp |-> storageCp, wcp |-> writeCp]

NoUpdate ==
    [cp |-> 0, wcp |-> 0, invalidateDataBuckets |-> FALSE,
     invalidateParameterBuckets |-> FALSE, updatedDataBuckets |-> {},
     updatedParameterLookups |-> FALSE]

(***************************************************************************)
(* streamResponseInner, bucketDataInBatches and bucketDataBatch.           *)
(***************************************************************************)
storageVars == << opLog, storageCp, writeCp >>
rulesVars   == << priority, hasDynamic, maxBuckets >>
stateVars   == << bucketDataPositions, lastChecksums, lastWriteCheckpoint,
                  pendingBucketDownloads, cachedDynamicBuckets, raised >>
loopVars    == << cur, groups, fetch, gi, didCompletePartialSync, syncedOperations >>
batchVars   == << isDone, chunks, curChunk, hasMore, checkpointInvalidated >>
clientVars  == << lastFrame, lineFrames, sentOps, clientData, clientMap >>

Frame(t, cp, prio, bucket, data) ==
    [t |-> t, cp |-> cp, priority |-> prio, bucket |-> bucket, data |-> data]
NoFrame == Frame("none", 0, 0, "", << >>)
NoChunk ==
    [bucket |-> "", after |-> 0, data |-> << >>, next_after |-> 0,
     has_more |-> FALSE, targetOp |-> NULL]

\* The client applies a checkpoint line to its map of bucket checksums.
ApplyLine(map, line) ==
    IF line.lineType = "checkpoint" THEN line.buckets
    ELSE [b \in (DOMAIN map \ line.removed) \cup DOMAIN line.buckets |->
            IF b \in DOMAIN line.buckets THEN line.buckets[b] ELSE map[b]]

RECURSIVE SortDescending(_)
SortDescending(S) ==
    IF S = {} THEN << >>
    ELSE LET m == CHOOSE x \in S : \A y \in S : y <= x
         IN  << m >> \o SortDescending(S \ {m})

\* bucketsByPriority: Map.groupBy(bucketsToFetch, priority), then
\* sort((a, b) => b[0] - a[0]); the groups are named by their priority.
bucketsByPriority(bucketsToFetch) ==
    SortDescending({priority[b] : b \in bucketsToFetch})

GroupBuckets(p) == {b \in fetch : priority[b] = p}

\* abortCheckpointSignal = AbortSignal.any([abortCheckpointController.signal, signal])
abortCheckpointSignal == abortCtl \/ connAborted

\* maybeRaceForNewCheckpoint: the value of nextCheckpointPromise after it.
maybeRaceForNewCheckpoint_NoThreshold(didComplete, synced) ==
    IF didComplete /\ nextPromise = "none" THEN "race" ELSE nextPromise
maybeRaceForNewCheckpoint(didComplete, synced) ==
    IF didComplete /\ synced >= MinRaceOps /\ nextPromise = "none"
    THEN "race" ELSE nextPromise

\* Lines 135-156: build the line for `next`, emit it and set up the priority loop.
ProcessCheckpoint(next) ==
    LET line == buildNextCheckpointLine(next)
    IN  /\ bucketDataPositions' = line.positions
        /\ cachedDynamicBuckets' = line.cached
        /\ raised' = line.error
        /\ lastChecksums' = line.checksums
        /\ lastWriteCheckpoint' = line.writeCheckpoint
        /\ pendingBucketDownloads' = line.pending
        /\ IF line.kind = "line"
             THEN /\ lastFrame' = Frame(line.lineType, next.cp, 0, "", << >>)
                  /\ lineFrames' = << >>
                  /\ clientMap' = ApplyLine(clientMap, line)
                  /\ clientData' = [b \in Buckets |->
                                      IF b \in DOMAIN clientMap' THEN clientData[b] ELSE {}]
                  /\ cur' = next
                  /\ fetch' = line.bucketsToFetch
                  /\ groups' = bucketsByPriority(line.bucketsToFetch)
                  /\ gi' = 1
                  /\ abortCtl' = FALSE
                  /\ didCompletePartialSync' = FALSE
                  /\ syncedOperations' = 0
                  /\ pc' = "group"
                  /\ UNCHANGED sentOps
             ELSE /\ pc' = IF line.kind = "error" THEN "error" ELSE "await"
                  /\ UNCHANGED << clientVars, loopVars, abortCtl >>

\* Lines 126-143: await the next checkpoint (the result of the speculative
\* next() if there is one) and build its line.
AwaitCheckpoint ==
    /\ UNCHANGED bvars
    /\ pc = "await"
    /\ nextPromise # "ended"
    /\ IF nextPromise = "resolved"
         THEN /\ ProcessCheckpoint(raceValue)
              /\ UNCHANGED watchLast
         ELSE /\ HasUpdate
              /\ \E inv \in BOOLEAN :
                    /\ watchLast.first => inv
                    /\ ProcessCheckpoint(NextUpdate(inv))
              /\ watchLast' = Yielded
    /\ nextPromise' = "none"
    /\ raceValue' = NoUpdate
    /\ UNCHANGED << storageVars, rulesVars, batchVars, connAborted >>

\* Lines 130-134: the awaited next() reports the end of the upstream iterator
\* (as the next() of the main loop, or as the result of a speculative one):
\* the loop is left.
AwaitDone ==
    /\ UNCHANGED bvars
    /\ pc = "await"
    /\ nextPromise # "resolved"
    /\ pc' = "ended"
    /\ nextPromise' = "none"
    /\ raceValue' = NoUpdate
    /\ UNCHANGED << storageVars, watchLast, rulesVars, stateVars, loopVars,
                    batchVars, clientVars, abortCtl, connAborted >>

\* `if (!next.done)`: the result of the speculative next() aborts the batch.
raceAborts_Always(done) == TRUE
raceAborts(done) == ~done

\* Lines 160-168: the speculative next() resolves, with a checkpoint or with
\* the end of the upstream iterator; a checkpoint aborts the batch of the
\* checkpoint being synced.
RaceResolve ==
    /\ UNCHANGED bvars
    /\ nextPromise = "race"
    /\ pc \notin {"await", "ended", "error"}
    /\ \E done \in BOOLEAN :
          /\ IF done
                THEN /\ nextPromise' = "ended"
                     /\ raceValue' = NoUpdate
                     /\ UNCHANGED watchLast
                ELSE /\ HasUpdate
                     /\ \E inv \in BOOLEAN : raceValue' = NextUpdate(inv)
                     /\ watchLast' = Yielded
                     /\ nextPromise' = "resolved"
          /\ abortCtl' = (abortCtl \/ raceAborts(done))
    /\ UNCHANGED << storageVars, rulesVars, stateVars, loopVars, batchVars,
                    clientVars, pc, connAborted >>

\* Lines 180-185 and 204-206: the head of the priority loop.
PriorityLoop ==
    /\ UNCHANGED bvars
    /\ pc = "group"
    /\ IF gi > Len(groups) \/ abortCheckpointSignal
         THEN pc' = "iterEnd" /\ UNCHANGED isDone
         ELSE pc' = "loopHead" /\ isDone' = FALSE
    /\ UNCHANGED << storageVars, watchLast, rulesVars, stateVars, loopVars,
                    clientVars, nextPromise, raceValue, abortCtl, connAborted,
                    chunks, curChunk, hasMore, checkpointInvalidated >>

\* Line 237 of bucketDataInBatches, and lines 202-203 when it returns.
DataInBatchesLoop ==
    /\ UNCHANGED bvars
    /\ pc = "loopHead"
    /\ IF ~connAborted /\ ~isDone
         THEN /\ pc' = "acquire"
              /\ UNCHANGED << didCompletePartialSync, gi, nextPromise, isDone >>
         ELSE /\ didCompletePartialSync' = TRUE
              /\ nextPromise' = maybeRaceForNewCheckpoint(TRUE, syncedOperations)
              /\ gi' = gi + 1
              /\ isDone' = FALSE
              /\ pc' = "group"
    /\ UNCHANGED << storageVars, watchLast, rulesVars, stateVars,
                    chunks, curChunk, hasMore, checkpointInvalidated,
                    clientVars, raceValue, abortCtl, connAborted,
                    cur, groups, fetch, syncedOperations >>

\* Lines 288-314 of bucketDataBatch: acquire the semaphore unless abort_batch
\* fired, then query the buckets of the group from their positions.
DataBatchStart ==
    /\ UNCHANGED bvars
    /\ pc = "acquire"
    /\ IF abortCheckpointSignal
         THEN /\ pc' = "loopHead"
              /\ UNCHANGED << chunks, hasMore, checkpointInvalidated >>
         ELSE /\ \E compacted \in BOOLEAN :
                    chunks' = getBucketDataBatch(
                                cur.cp,
                                getFilteredBucketPositions(GroupBuckets(groups[gi])),
                                compacted)
              /\ hasMore' = FALSE
              /\ checkpointInvalidated' = FALSE
              /\ pc' = "chunk"
    /\ UNCHANGED << storageVars, watchLast, rulesVars, stateVars, loopVars,
                    clientVars, nextPromise, raceValue, abortCtl, connAborted,
                    isDone, curChunk >>

\* `targetOp != null && targetOp > checkpointOp`: the chunk points past the
\* checkpoint being synced.
invalidates_Never(targetOp, checkpointOp) == FALSE
invalidates(targetOp, checkpointOp) == targetOp # NULL /\ targetOp > checkpointOp

\* Lines 316-352: take the next chunk and yield its data frame.
DataBatchYield ==
    /\ UNCHANGED bvars
    /\ pc = "chunk"
    /\ IF chunks = << >>
         THEN /\ pc' = "finish"
              /\ UNCHANGED << chunks, curChunk, hasMore, checkpointInvalidated,
                              clientVars >>
         ELSE LET r == Head(chunks)
              IN  /\ hasMore' = (hasMore \/ r.has_more)
                  /\ checkpointInvalidated' =
                        (checkpointInvalidated \/ invalidates(r.targetOp, cur.cp))
                  /\ lastFrame' = Frame("data", cur.cp, priority[r.bucket], r.bucket, r.data)
                  /\ lineFrames' = Append(lineFrames, lastFrame')
                  /\ sentOps' = [sentOps EXCEPT ![r.bucket] = @ \cup {r.data[k] : k \in DOMAIN r.data}]
                  /\ clientData' = [clientData EXCEPT ![r.bucket] = @ \cup {r.data[k] : k \in DOMAIN r.data}]
                  /\ curChunk' = r
                  /\ chunks' = Tail(chunks)
                  /\ pc' = "sent"
                  /\ UNCHANGED clientMap
    /\ UNCHANGED << storageVars, watchLast, rulesVars, stateVars, loopVars,
                    nextPromise, raceValue, abortCtl, connAborted, isDone >>

\* Lines 358-366: count the rows, record the bucket position, and leave the
\* loop if abort_batch fired.
DataBatchSent ==
    /\ UNCHANGED bvars
    /\ pc = "sent"
    /\ syncedOperations' = syncedOperations + Len(curChunk.data)
    /\ nextPromise' = maybeRaceForNewCheckpoint(didCompletePartialSync, syncedOperations')
    /\ bucketDataPositions' = updateBucketPosition(curChunk.bucket, curChunk.next_after)
    /\ pendingBucketDownloads' = updatePendingDownloads(curChunk.bucket, curChunk.has_more)
    /\ pc' = IF abortCheckpointSignal THEN "finish" ELSE "chunk"
    /\ curChunk' = NoChunk
    /\ chunks' = IF abortCheckpointSignal THEN << >> ELSE chunks
    /\ UNCHANGED << storageVars, watchLast, rulesVars, clientVars,
                    isDone, hasMore, checkpointInvalidated,
                    raceValue, abortCtl, connAborted, lastChecksums,
                    lastWriteCheckpoint, cachedDynamicBuckets, raised,
                    cur, groups, fetch, gi, didCompletePartialSync >>

\* request.forPriority: undefined (NULL here, as -1) for the last group.
lowestPriority == groups[Len(groups)]
IsLastGroup == groups[gi] = lowestPriority

\* Lines 369-403: the completion line of the batch, and the release.
DataBatchFinish ==
    /\ UNCHANGED bvars
    /\ pc = "finish"
    /\ IF ~hasMore
         THEN /\ isDone' = TRUE
              /\ IF checkpointInvalidated
                   THEN \* { data: null, done: true }: nothing reaches the client
                        /\ lineFrames' = Append(lineFrames, Frame("null", cur.cp, 0, "", << >>))
                        /\ UNCHANGED lastFrame
                   ELSE /\ lastFrame' =
                              IF IsLastGroup
                              THEN Frame("checkpoint_complete", cur.cp, 0, "", << >>)
                              ELSE Frame("partial_checkpoint_complete", cur.cp,
                                         groups[gi], "", << >>)
                        /\ lineFrames' = Append(lineFrames, lastFrame')
         ELSE UNCHANGED << isDone, lastFrame, lineFrames >>
    /\ pc' = "loopHead"
    \* the locals of bucketDataBatch end with it
    /\ chunks' = << >> /\ curChunk' = NoChunk
    /\ hasMore' = FALSE /\ checkpointInvalidated' = FALSE
    /\ UNCHANGED << storageVars, watchLast, rulesVars, stateVars, loopVars,
                    nextPromise, raceValue, abortCtl, connAborted,
                    sentOps, clientData, clientMap >>

\* Lines 206-209: the 10 ms sleep and the loop condition.
IterationEnd ==
    /\ UNCHANGED bvars
    /\ pc = "iterEnd"
    /\ pc' = "await"
    \* the locals of the loop body end with the iteration
    /\ groups' = << >> /\ fetch' = {} /\ gi' = 1
    /\ didCompletePartialSync' = FALSE /\ syncedOperations' = 0
    /\ abortCtl' = FALSE
    /\ UNCHANGED << storageVars, watchLast, rulesVars, stateVars, cur,
                    batchVars, clientVars, nextPromise, raceValue,
                    connAborted >>

\* The signal of the connection fires: the stream ends, nothing more is emitted.
ConnectionAbort ==
    /\ UNCHANGED bvars
    /\ pc \notin {"ended", "error"}
    /\ connAborted' = TRUE
    /\ pc' = "ended"
    \* the generators are finalised: their locals are gone
    /\ groups' = << >> /\ fetch' = {} /\ gi' = 1
    /\ didCompletePartialSync' = FALSE /\ syncedOperations' = 0
    /\ abortCtl' = FALSE /\ nextPromise' = "none" /\ raceValue' = NoUpdate
    /\ isDone' = FALSE /\ chunks' = << >> /\ curChunk' = NoChunk
    /\ hasMore' = FALSE /\ checkpointInvalidated' = FALSE
    /\ UNCHANGED << storageVars, watchLast, rulesVars, stateVars, cur,
                    clientVars >>

Storage ==
    \/ \E x \in Buckets \cup (IF hasDynamic THEN {ParamOp} ELSE {}) :
          x \in Workload[Len(opLog) + 1] /\ StorageWrite(x)
    \/ StorageCommit
    \/ StorageWriteCheckpoint

\* The stream reads the storage's checkpoint only where it takes an update
\* from the watcher (AwaitCheckpoint, RaceResolve), and the ops at or below a
\* checkpoint never change: storage steps are taken where a next() is pending.
StorageStep ==
    /\ UNCHANGED bvars
    /\ pc = "await" \/ nextPromise = "race"
    /\ pc \notin {"ended", "error"}
    /\ Storage
    /\ UNCHANGED << rulesVars, stateVars, loopVars, batchVars, clientVars,
                    pc, nextPromise, raceValue, abortCtl, connAborted >>

(***************************************************************************)
(* MongoBucketBatch: two batches in one process, batch b replicating the   *)
(* sync rules group b, on one database.                                    *)
(***************************************************************************)
\* Highest LSN a call is given; LSNs are compared as numbers, 0 is the zero LSN.
MaxLsn == 2
\* Highest op_id the op_id sequence reaches.
MaxSeq == 2
\* Times the callback of one replication transaction is run (first try included).
MaxFlushTry == 2
\* Rows truncateSingle deletes per transaction (2000 in part_011 line 955, scaled down).
TruncateLimit == 1

\* null in a field that holds an op_id or an LSN (0 is the op_id 0n).
None == 0 - 1

Batches == {1, 2}
Lsns == 1..MaxLsn

\* Batch 1 replicates the new sync rules (PROCESSING) and is driven through
\* every call. Batch 2 replicates the old ones (ACTIVE): it saves and flushes.
Committers == {1}
InitialState == [g \in Batches |-> IF g \in Committers THEN "PROCESSING" ELSE "ACTIVE"]

\* keepalive: whether the call was made by keepalive.
NoCall == [name |-> "none", lsn |-> 0, createEmptyCheckpoints |-> TRUE, keepalive |-> FALSE]
NoTxn == [kind |-> "none", opSeq |-> 0, flushTry |-> 0, last_op |-> None, lastBatchCount |-> 0]

\* Sources one Demultiplexer creates, subscribers, and values its sources emit.
MaxSources == 2
MaxValues == 2

Sources == 1..MaxSources
Subs == {"s1", "s2"}
Keys == {"u1", "u2"}
\* A new LastValueSink(undefined).
NewSink == [value |-> NULL, closed |-> "open"]
EmptySinks == [k \in Keys |-> {}]

\* The Demultiplexer as constructed, with no subscriber yet.
DemuxStart ==
    /\ subscribers = NULL
    /\ abortController = NULL
    /\ currentSource = NULL
    /\ sinkMaps = [g \in Sources |-> EmptySinks]
    /\ aborted = [g \in Sources |-> FALSE]
    /\ upstream = [g \in Sources |-> "none"]
    /\ started = 0
    /\ nextValue = 1
    /\ spc = [s \in Subs |-> "idle"]
    /\ skey = [s \in Subs |-> "u1"]
    /\ ssource = [s \in Subs |-> NULL]
    /\ sink = [s \in Subs |-> NewSink]
    /\ received = [s \in Subs |-> << >>]
    /\ missed = [s \in Subs |-> [value |-> NULL, early |-> FALSE]]

\* Ops in bucket_data, and the callers of getChecksums.
MaxCacheOp == 3
CacheBuckets == {"test", "test2"}
Callers == {"p1", "p2"}
Checkpoints == 1..MaxCacheOp

\* No entry in the cache, and no call.
NoEntry == [state |-> "none"]
NoGet == [pc |-> "idle", checkpoint |-> 0, buckets |-> {}]

\* A new ChecksumCache, with no call of getChecksums yet.
CacheStart ==
    /\ cache = [b \in CacheBuckets |-> [e \in Checkpoints |-> NoEntry]]
    /\ inflight = [c \in Callers |-> {}]
    /\ calls = [c \in Callers |-> NoGet]

\* The permits of syncSemaphore (MAX_ACTIVE_CONNECTIONS, 10 in sync.ts line
\* 20, scaled down), and the connections that fetch data.
MaxActiveConnections == 2
Connections == {"k1", "k2", "k3", "k4"}

\* syncSemaphore as created, with no bucketDataBatch running.
SemaphoreStart ==
    /\ semValue = MaxActiveConnections
    /\ dpc = [k \in Connections |-> "idle"]
    /\ held = [k \in Connections |-> 0]
    /\ abort_batch = [k \in Connections |-> FALSE]
    /\ outcome = [k \in Connections |-> "none"]

\* Records the source produces for the table.
MaxRecords == 3

\* The replicated table with no rows, and nothing saved or written yet.
RowsStart ==
    /\ current_data = << >>
    /\ bucket_ops = << >>
    /\ bucket_parameters = {}
    /\ records = << >>
    /\ sourceRows = << >>
    /\ reported = 0
    /\ rowpc = "idle"
    /\ lastBatchCount = 0
    /\ truncating = [rows |-> << >>, ops |-> 0]
    /\ produced = 0

\* Keys the collector of a KeyStore returns.
MaxKeys == 2

\* A header without kid, a key without kid: the value undefined of the program.
Undefined == "$undefined"

\* No call of getCachedKey under way.
NoKeyCall == [keys |-> << >>, errors |-> << >>,
              token |-> [kid |-> Undefined, alg |-> "", signedWith |-> 0],
              hasNoKeyFound |-> FALSE]
NoKeyResult == [kind |-> "none", key |-> 0, error |-> ""]

KeyStart ==
    /\ kpc = "idle"
    /\ keyCall = NoKeyCall
    /\ keyResult = NoKeyResult
    /\ refreshed = FALSE

\* Migrations in the list of the agent, entries the stored log reaches, and the
\* last millisecond of the clock that stamps the log entries.
MaxMigrations == 2
MaxLog == 4
MaxClock == 2

\* store.load() of a store that holds no state (undefined).
NoMigrationState == [defined |-> FALSE, last_run |-> "", log |-> << >>]
\* No run of the agent under way.
NoRun == [direction |-> "", count |-> 0, queue |-> << >>, i |-> 0, log |-> << >>,
          error |-> FALSE]

MigrationStart ==
    /\ migrations = << >>
    /\ mstore = NoMigrationState
    /\ applied = {}
    /\ clock = 0
    /\ mpc = "new"
    /\ mrun = NoRun

\* Replication attempts one ChangeStreamReplicationJob makes.
MaxReplicationAttempts == 3

JobStart ==
    /\ jpc = "idle"
    /\ jaborted = FALSE
    /\ jthrown = "none"
    /\ jlog = << >>
    /\ restartCalls = 0

\* Lines one streamResponse yields.
MaxLines == 3

\* streamResponse before its first next().
ResponseStart ==
    /\ signalAborted = FALSE
    /\ controllerAborted = FALSE
    /\ spr = "unstarted"
    /\ inner = "running"
    /\ ki = "running"
    /\ linesOut = << >>
    /\ failure = "none"

\* No source transaction is being delivered.
NoDelivery ==
    [tx |-> 0, pos |-> 0, lsn |-> 0, again |-> FALSE, startOps |-> 0, startCp |-> None]

\* The database before replication, and the batches as their constructor leaves them.
BatchStart ==
    /\ opIdSequence = 0
    /\ bucketOps = << >>
    /\ currentData = [g \in Batches |-> 0]
    /\ sourceTables = Batches
    /\ syncRulesDoc =
          [g \in Batches |->
              [state |-> InitialState[g], last_checkpoint |-> None,
               last_checkpoint_lsn |-> None, no_checkpoint_before |-> 0,
               keepalive_op |-> None, snapshot_done |-> FALSE]]
    /\ replicationMutex = 0
    /\ batch = [b \in Batches |-> 0]
    /\ persisted_op = [b \in Batches |-> None]
    /\ last_checkpoint_lsn = [b \in Batches |-> None]
    /\ no_checkpoint_before_lsn = [b \in Batches |-> 0]
    /\ needsActivation = [b \in Batches |-> TRUE]
    /\ bpc = [b \in Batches |-> "idle"]
    /\ call = [b \in Batches |-> NoCall]
    /\ txn = [b \in Batches |-> NoTxn]
    /\ result = [b \in Batches |-> "none"]
    /\ notified = [b \in Batches |-> FALSE]
    /\ opBatch = << >>
    /\ currentRows = {}
    /\ delivery = NoDelivery
    /\ delivered = {}
    /\ rpc = "idle"
    /\ flushTry = 0
    /\ elapsed = 0
    /\ attemptAt = 0
    /\ thrown = "none"
    /\ DemuxStart
    /\ CacheStart
    /\ SemaphoreStart
    /\ JobStart
    /\ MigrationStart
    /\ KeyStart
    /\ RowsStart
    /\ ResponseStart

\* The connection before its first checkpoint.
SyncStart ==
    /\ opLog = << >> /\ storageCp = 0 /\ writeCp = 0
    /\ watchLast = [first |-> TRUE, cp |-> 0, wcp |-> 0]
    /\ priority \in PriorityMaps
    /\ pc = "await" /\ nextPromise = "none" /\ raceValue = NoUpdate
    /\ cur = NoUpdate /\ groups = << >> /\ fetch = {} /\ gi = 1
    /\ abortCtl = FALSE /\ connAborted = FALSE
    /\ didCompletePartialSync = FALSE /\ syncedOperations = 0
    /\ isDone = FALSE /\ chunks = << >> /\ curChunk = NoChunk
    /\ hasMore = FALSE /\ checkpointInvalidated = FALSE
    /\ bucketDataPositions = << >>
    /\ lastChecksums = [null |-> TRUE, map |-> << >>]
    /\ lastWriteCheckpoint = NULL
    /\ pendingBucketDownloads = {}
    /\ cachedDynamicBuckets = [null |-> TRUE, set |-> {}]
    /\ raised = "none"
    /\ lastFrame = NoFrame /\ lineFrames = << >>
    /\ sentOps = [b \in Buckets |-> {}]
    /\ clientData = [b \in Buckets |-> {}]
    /\ clientMap = << >>

InitSync ==
    /\ SyncStart
    /\ hasDynamic \in BOOLEAN
    /\ maxBuckets = MaxBucketsPerConnection
    /\ storeCurrentData = TRUE
    /\ BatchStart
    /\ bucket_data = << >>

NextSync ==
    \/ AwaitCheckpoint
    \/ AwaitDone
    \/ RaceResolve
    \/ PriorityLoop
    \/ DataInBatchesLoop
    \/ DataBatchStart
    \/ DataBatchYield
    \/ DataBatchSent
    \/ DataBatchFinish
    \/ IterationEnd
    \/ ConnectionAbort
    \/ StorageStep

SpecSync == InitSync /\ [][NextSync]_vars

(***************************************************************************)
(* BucketChecksumState on its own: its caller hands it storage updates of  *)
(* either kind, the first one included, and records the chunks it sends.   *)
(***************************************************************************)
\* buildNextCheckpointLine(next), for the update the storage has now.
BuildLine ==
    /\ UNCHANGED bvars
    /\ pc # "error"
    /\ \E inv \in BOOLEAN : ProcessCheckpoint(NextUpdate(inv))
    /\ watchLast' = Yielded
    /\ UNCHANGED << storageVars, rulesVars, batchVars, nextPromise, raceValue,
                    connAborted >>

\* updateBucketPosition for a chunk of bucket b of the line sent last: the
\* chunk holds the first row the bucket has past its position when has_more,
\* and all of them otherwise.
RecordChunk(b, chunkHasMore) ==
    LET rows == IF b \in DOMAIN bucketDataPositions
                THEN OpsOf(b, bucketDataPositions[b], cur.cp) ELSE << >>
        nextAfter == IF chunkHasMore THEN rows[1] ELSE rows[Len(rows)]
    IN  /\ UNCHANGED bvars
        /\ pc = "group"
        /\ b \in fetch
        /\ Len(rows) >= (IF chunkHasMore THEN 2 ELSE 1)
        /\ bucketDataPositions' = updateBucketPosition(b, nextAfter)
        /\ pendingBucketDownloads' = updatePendingDownloads(b, chunkHasMore)
        /\ UNCHANGED << storageVars, watchLast, rulesVars, loopVars, batchVars,
                        clientVars, pc, nextPromise, raceValue, abortCtl,
                        connAborted, lastChecksums, lastWriteCheckpoint,
                        cachedDynamicBuckets, raised >>

\* Replication between the calls. BucketChecksumState sees the ops at or below
\* the checkpoint only, so each op is committed as it is written; a commit of
\* several ops is several of these steps with no call in between. The log
\* stays one op short of the one the whole stream is checked with.
StorageAdvance ==
    /\ UNCHANGED bvars
    /\ pc # "error"
    /\ \/ /\ Len(opLog) + 1 < Min(MaxOp, Len(Workload))
          /\ \E x \in Buckets \cup (IF hasDynamic THEN {ParamOp} ELSE {}) :
                /\ x \in Workload[Len(opLog) + 1]
                /\ opLog' = Append(opLog, x)
          /\ storageCp' = Len(opLog')
          /\ UNCHANGED << writeCp, watchLast >>
       \/ StorageWriteCheckpoint
    /\ UNCHANGED << rulesVars, stateVars, loopVars, batchVars, clientVars,
                    pc, nextPromise, raceValue, abortCtl, connAborted >>

InitChecksumState ==
    /\ SyncStart
    /\ hasDynamic \in BOOLEAN
    /\ maxBuckets \in {MaxBucketsPerConnection - 1, MaxBucketsPerConnection}
    /\ storeCurrentData = TRUE
    /\ BatchStart
    /\ bucket_data = << >>

NextChecksumState ==
    \/ BuildLine
    \/ \E b \in Buckets, chunkHasMore \in BOOLEAN : RecordChunk(b, chunkHasMore)
    \/ StorageAdvance

SpecChecksumState == InitChecksumState /\ [][NextChecksumState]_vars

(***************************************************************************)
(* MongoBucketBatch: flush, truncate, drop, commit, keepalive and          *)
(* markSnapshotDone, with the replication transactions as separate steps.  *)
(***************************************************************************)
dbVars    == << opIdSequence, bucketOps, currentData, sourceTables, syncRulesDoc >>
fieldVars == << batch, persisted_op, last_checkpoint_lsn,
                no_checkpoint_before_lsn, needsActivation >>
callVars  == << bpc, call, txn, result, notified >>

\* The operations buffered in this.batch.
Buffered(b) == IF batch[b] = None THEN 0 ELSE batch[b]

\* op_ids the calls under way may still allocate: the model stops taking new
\* work when the sequence would pass MaxSeq.
Planned(b) ==
    Buffered(b)
    + (IF call[b].name \in {"truncate", "drop"} /\ bpc[b] # "idle"
       THEN currentData[b] + Buffered(b) ELSE 0)
Room == MaxSeq - (opIdSequence + Planned(1) + Planned(2))

\* A lock that lets every caller in.
MutexFree_NoLock == TRUE

\* replicationMutex.exclusiveLock runs its callback once the mutex is free.
MutexFree == replicationMutex = 0

\* save(): push the record of a row of the group's source table on this.batch.
Save(b) ==
    /\ UNCHANGED syncVars
    /\ bpc[b] = "idle"
    /\ b \in sourceTables
    /\ Room >= 1
    /\ batch' = [batch EXCEPT ![b] = Buffered(b) + 1]
    /\ result' = [result EXCEPT ![b] = "none"]
    /\ notified' = [notified EXCEPT ![b] = FALSE]
    /\ UNCHANGED << dbVars, replicationMutex, persisted_op,
                    last_checkpoint_lsn, no_checkpoint_before_lsn, needsActivation,
                    bpc, call, txn >>

\* A call that starts with flush(): flush, commit, truncate or drop.
StartCall(b, name, lsn, createEmpty) ==
    /\ UNCHANGED syncVars
    /\ bpc[b] = "idle"
    /\ bpc' = [bpc EXCEPT ![b] = "flush"]
    /\ call' = [call EXCEPT ![b] =
                    [name |-> name, lsn |-> lsn, createEmptyCheckpoints |-> createEmpty,
                     keepalive |-> FALSE]]
    /\ txn' = [txn EXCEPT ![b] = NoTxn]
    /\ result' = [result EXCEPT ![b] = "none"]
    /\ notified' = [notified EXCEPT ![b] = FALSE]
    /\ UNCHANGED << dbVars, replicationMutex, fieldVars >>

Flush(b) == StartCall(b, "flush", 0, TRUE)

Commit(b) ==
    /\ b \in Committers
    /\ \E lsn \in Lsns, createEmpty \in BOOLEAN : StartCall(b, "commit", lsn, createEmpty)

Truncate(b) ==
    /\ b \in Committers /\ b \in sourceTables
    /\ Room >= currentData[b] + Buffered(b)
    /\ StartCall(b, "truncate", 0, TRUE)

Drop(b) ==
    /\ b \in Committers /\ b \in sourceTables
    /\ Room >= currentData[b] + Buffered(b)
    /\ StartCall(b, "drop", 0, TRUE)

\* withTransaction and the head of withReplicationTransaction: take the mutex
\* and read the op_id sequence.
TxnBegin(b) ==
    /\ UNCHANGED syncVars
    /\ \/ bpc[b] = "flush" /\ batch[b] # None
       \/ bpc[b] = "trunc" /\ txn[b].lastBatchCount = TruncateLimit
    /\ MutexFree
    /\ replicationMutex' = b
    /\ txn' = [txn EXCEPT ![b].kind = bpc[b], ![b].opSeq = opIdSequence, ![b].flushTry = 1]
    /\ bpc' = [bpc EXCEPT ![b] = "txn"]
    /\ UNCHANGED << dbVars, fieldVars, call, result, notified >>

\* A transient transaction error: session.withTransaction runs the callback again.
TxnRetry(b) ==
    /\ UNCHANGED syncVars
    /\ bpc[b] = "txn"
    /\ txn[b].flushTry < MaxFlushTry
    /\ txn' = [txn EXCEPT ![b].opSeq = opIdSequence, ![b].flushTry = @ + 1]
    /\ UNCHANGED << dbVars, replicationMutex, fieldVars, bpc, call, result, notified >>

\* The bucket ops a transaction commits: op_ids first..last from opSeq.next().
NewOps(first, last) == [i \in 1..(last - first + 1) |-> first + i - 1]

\* flushInner: the transaction replicates k of the buffered operations (all of
\* them unless it grew too big), writes the sequence back and commits. No
\* custom write checkpoints are batched: the list of them stays empty.
FlushCommit(b) ==
    /\ UNCHANGED syncVars
    /\ bpc[b] = "txn" /\ txn[b].kind = "flush"
    /\ \E k \in 0..Buffered(b) :
        /\ Buffered(b) > 0 => k >= 1
        /\ LET opSeq == txn[b].opSeq
               last  == opSeq + k
           IN  /\ bucketOps' = bucketOps \o NewOps(opSeq + 1, opSeq + k)
               /\ opIdSequence' = last
               /\ currentData' = [currentData EXCEPT ![b] = @ + k]
               /\ batch' = [batch EXCEPT ![b] =
                               IF batch[b] # None /\ k < batch[b] THEN batch[b] - k ELSE None]
               /\ persisted_op' = [persisted_op EXCEPT ![b] = last]
    /\ replicationMutex' = 0
    /\ bpc' = [bpc EXCEPT ![b] = "flush"]
    /\ txn' = [txn EXCEPT ![b] = NoTxn]
    /\ UNCHANGED << sourceTables, syncRulesDoc, last_checkpoint_lsn,
                    no_checkpoint_before_lsn, needsActivation, call, result,
                    notified >>

\* truncateSingle: one transaction removes up to BATCH_LIMIT rows, one op each.
TruncateCommit(b) ==
    /\ UNCHANGED syncVars
    /\ bpc[b] = "txn" /\ txn[b].kind = "trunc"
    /\ LET opSeq == txn[b].opSeq
           rows  == Min(currentData[b], TruncateLimit)
       IN  /\ bucketOps' = bucketOps \o NewOps(opSeq + 1, opSeq + rows)
           /\ opIdSequence' = opSeq + rows
           /\ currentData' = [currentData EXCEPT ![b] = @ - rows]
           /\ txn' = [txn EXCEPT ![b] = [NoTxn EXCEPT !.last_op = opSeq + rows,
                                                       !.lastBatchCount = rows]]
    /\ replicationMutex' = 0
    /\ bpc' = [bpc EXCEPT ![b] = "trunc"]
    /\ UNCHANGED << sourceTables, syncRulesDoc, fieldVars, call, result, notified >>

\* commit without the no_checkpoint_before_lsn gate.
commitBranch_NoGate(b, lsn, createEmpty) ==
    IF last_checkpoint_lsn[b] # None /\ lsn < last_checkpoint_lsn[b] THEN "skip"
    ELSE IF ~createEmpty /\ persisted_op[b] = None THEN "empty"
    ELSE "checkpoint"

\* commit that never finds its LSN behind the last checkpoint.
behindLastCheckpoint_Never(b, lsn) == FALSE

\* commit: whether lsn is before the LSN of the last checkpoint (line 665).
behindLastCheckpoint(b, lsn) ==
    last_checkpoint_lsn[b] # None /\ lsn < last_checkpoint_lsn[b]

\* The branch commit(lsn) takes after its flush (lines 665, 672, 703).
commitBranch(b, lsn, createEmpty) ==
    IF behindLastCheckpoint(b, lsn) THEN "skip"
    ELSE IF lsn < no_checkpoint_before_lsn[b] THEN "wait"
    ELSE IF ~createEmpty /\ persisted_op[b] = None THEN "empty"
    ELSE "checkpoint"

\* autoActivate that stops only the sync rules that were ACTIVE.
stopsOnActivation_ActiveOnly(state) == state = "ACTIVE"

\* autoActivate: the states of the other sync rules its updateMany matches.
stopsOnActivation(state) == state \in {"ACTIVE", "ERRORED"}

\* autoActivate: whether it switches the group of batch b to ACTIVE.
activates(b, docs) == needsActivation[b] /\ docs[b].state = "PROCESSING"

\* autoActivate that never switches the state.
autoActivate_Never(b, docs) == docs

\* autoActivate: the sync_rules documents after it.
autoActivate(b, docs) ==
    IF activates(b, docs)
    THEN [g \in Batches |->
            IF g = b THEN [docs[g] EXCEPT !.state = "ACTIVE"]
            ELSE IF stopsOnActivation(docs[g].state)
                 THEN [docs[g] EXCEPT !.state = "STOP"]
            ELSE docs[g]]
    ELSE docs

\* commit(lsn) after its flush: lines 665-755.
commitTail(b) ==
    LET lsn    == call[b].lsn
        branch == commitBranch(b, lsn, call[b].createEmptyCheckpoints)
        waitDoc == [syncRulesDoc EXCEPT ![b].keepalive_op = persisted_op[b]]
        update == [syncRulesDoc EXCEPT
                      ![b].last_checkpoint_lsn = lsn,
                      ![b].snapshot_done = TRUE,
                      ![b].keepalive_op = None,
                      ![b].last_checkpoint =
                          IF persisted_op[b] # None THEN persisted_op[b] ELSE @]
    IN  /\ syncRulesDoc' =
              CASE branch = "skip" -> syncRulesDoc
                [] branch = "wait" -> waitDoc
                [] branch = "empty" -> autoActivate(b, syncRulesDoc)
                [] OTHER -> autoActivate(b, update)
        /\ result' = [result EXCEPT ![b] =
                        IF branch \in {"skip", "wait"} THEN "false" ELSE "true"]
        /\ notified' = [notified EXCEPT ![b] =
                            \/ branch \in {"wait", "checkpoint"}
                            \/ branch = "empty" /\ activates(b, syncRulesDoc)]
        /\ needsActivation' = [needsActivation EXCEPT ![b] =
                                  IF branch \in {"empty", "checkpoint"} THEN FALSE ELSE @]
        /\ persisted_op' = [persisted_op EXCEPT ![b] =
                              IF branch = "checkpoint" THEN None ELSE @]
        /\ last_checkpoint_lsn' = [last_checkpoint_lsn EXCEPT ![b] =
                                      IF branch = "checkpoint" THEN lsn ELSE @]

\* flush() finds nothing left to flush: the rest of the call that started it.
FlushDone(b) ==
    /\ UNCHANGED syncVars
    /\ bpc[b] = "flush"
    /\ batch[b] = None
    /\ CASE call[b].name = "commit" ->
              /\ commitTail(b)
              /\ bpc' = [bpc EXCEPT ![b] = "idle"]
              /\ call' = [call EXCEPT ![b] = NoCall]
              /\ UNCHANGED txn
         [] call[b].name \in {"truncate", "drop"} ->
              /\ bpc' = [bpc EXCEPT ![b] = "trunc"]
              /\ txn' = [txn EXCEPT ![b] = [NoTxn EXCEPT !.lastBatchCount = TruncateLimit]]
              /\ UNCHANGED << syncRulesDoc, result, notified, needsActivation,
                              persisted_op, last_checkpoint_lsn, call >>
         [] call[b].name = "dropFlush" ->
              /\ bpc' = [bpc EXCEPT ![b] = "dropTxn"]
              /\ UNCHANGED << syncRulesDoc, result, notified, needsActivation,
                              persisted_op, last_checkpoint_lsn, call, txn >>
         [] OTHER ->
              /\ bpc' = [bpc EXCEPT ![b] = "idle"]
              /\ UNCHANGED result
              /\ call' = [call EXCEPT ![b] = NoCall]
              /\ UNCHANGED << syncRulesDoc, notified, needsActivation,
                              persisted_op, last_checkpoint_lsn, txn >>
    /\ UNCHANGED << opIdSequence, bucketOps, currentData, sourceTables,
                    replicationMutex, batch, no_checkpoint_before_lsn >>

\* truncate() after its last truncateSingle transaction (lines 940-947); drop()
\* goes on with its flush.
TruncateDone(b) ==
    /\ UNCHANGED syncVars
    /\ bpc[b] = "trunc"
    /\ txn[b].lastBatchCount # TruncateLimit
    /\ persisted_op' = [persisted_op EXCEPT ![b] =
                          IF txn[b].last_op # None /\ txn[b].last_op # 0
                          THEN txn[b].last_op ELSE @]
    /\ IF call[b].name = "drop"
         THEN /\ bpc' = [bpc EXCEPT ![b] = "flush"]
              /\ call' = [call EXCEPT ![b].name = "dropFlush"]
              /\ UNCHANGED result
         ELSE /\ bpc' = [bpc EXCEPT ![b] = "idle"]
              /\ UNCHANGED result
              /\ call' = [call EXCEPT ![b] = NoCall]
    /\ txn' = [txn EXCEPT ![b] = NoTxn]
    /\ UNCHANGED << dbVars, replicationMutex, batch, last_checkpoint_lsn, no_checkpoint_before_lsn, needsActivation,
                    notified >>

\* drop(): the transaction that deletes the source table record.
DropDelete(b) ==
    /\ UNCHANGED syncVars
    /\ bpc[b] = "dropTxn"
    /\ MutexFree
    /\ sourceTables' = sourceTables \ {b}
    /\ bpc' = [bpc EXCEPT ![b] = "idle"]
    /\ UNCHANGED result
    /\ call' = [call EXCEPT ![b] = NoCall]
    /\ UNCHANGED << opIdSequence, bucketOps, currentData, syncRulesDoc,
                    replicationMutex, fieldVars, txn, notified >>

\* keepalive that never commits a pending persisted_op.
keepaliveBranch_NoPending(b, lsn) ==
    IF last_checkpoint_lsn[b] # None /\ lsn <= last_checkpoint_lsn[b] THEN "noop"
    ELSE IF lsn < no_checkpoint_before_lsn[b] THEN "wait"
    ELSE "advance"

\* The branch keepalive(lsn) takes (lines 810, 815, 819).
keepaliveBranch(b, lsn) ==
    IF last_checkpoint_lsn[b] # None /\ lsn <= last_checkpoint_lsn[b] THEN "noop"
    ELSE IF lsn < no_checkpoint_before_lsn[b] THEN "wait"
    ELSE IF persisted_op[b] # None THEN "commit"
    ELSE "advance"

\* keepalive(lsn): lines 809-861.
KeepaliveAt(b, lsn) ==
    /\ UNCHANGED syncVars
    /\ b \in Committers
    /\ bpc[b] = "idle"
    /\ LET branch == keepaliveBranch(b, lsn) IN
        /\ call' = [call EXCEPT ![b] =
                      IF branch = "commit"
                      THEN [name |-> "commit", lsn |-> lsn,
                            createEmptyCheckpoints |-> TRUE, keepalive |-> TRUE]
                      ELSE NoCall]
        /\ CASE branch \in {"noop", "wait"} ->
                  /\ result' = [result EXCEPT ![b] = "false"]
                  /\ notified' = [notified EXCEPT ![b] = FALSE]
                  /\ UNCHANGED << syncRulesDoc, needsActivation, last_checkpoint_lsn, bpc >>
             [] branch = "commit" ->
                  \* return await this.commit(lsn)
                  /\ bpc' = [bpc EXCEPT ![b] = "flush"]
                  /\ result' = [result EXCEPT ![b] = "none"]
                  /\ notified' = [notified EXCEPT ![b] = FALSE]
                  /\ UNCHANGED << syncRulesDoc, needsActivation, last_checkpoint_lsn >>
             [] branch = "advance" ->
                  /\ syncRulesDoc' =
                        autoActivate(b, [syncRulesDoc EXCEPT
                                            ![b].last_checkpoint_lsn = lsn,
                                            ![b].snapshot_done = TRUE])
                  /\ needsActivation' = [needsActivation EXCEPT ![b] = FALSE]
                  /\ last_checkpoint_lsn' = [last_checkpoint_lsn EXCEPT ![b] = lsn]
                  /\ result' = [result EXCEPT ![b] = "true"]
                  /\ notified' = [notified EXCEPT ![b] = TRUE]
                  /\ UNCHANGED bpc
    /\ txn' = [txn EXCEPT ![b] = NoTxn]
    /\ UNCHANGED << opIdSequence, bucketOps, currentData, sourceTables,
                    replicationMutex, batch, persisted_op,
                    no_checkpoint_before_lsn >>

Keepalive(b) == \E lsn \in Lsns : KeepaliveAt(b, lsn)

\* markSnapshotDone(tables, no_checkpoint_before_lsn): lines 1035-1075.
markSnapshotDone(b) ==
    /\ UNCHANGED syncVars
    /\ b \in Committers
    /\ bpc[b] = "idle"
    /\ MutexFree
    /\ \E lsn \in Lsns :
        IF lsn > no_checkpoint_before_lsn[b]
        THEN /\ no_checkpoint_before_lsn' = [no_checkpoint_before_lsn EXCEPT ![b] = lsn]
             /\ syncRulesDoc' = [syncRulesDoc EXCEPT ![b].no_checkpoint_before = lsn]
        ELSE UNCHANGED << no_checkpoint_before_lsn, syncRulesDoc >>
    /\ result' = [result EXCEPT ![b] = "none"]
    /\ notified' = [notified EXCEPT ![b] = FALSE]
    /\ UNCHANGED << opIdSequence, bucketOps, currentData, sourceTables,
                    replicationMutex, batch, persisted_op,
                    last_checkpoint_lsn, needsActivation, bpc, call, txn >>

InitBatch ==
    /\ SyncStart
    /\ hasDynamic = FALSE
    /\ maxBuckets = MaxBucketsPerConnection
    /\ storeCurrentData = TRUE
    /\ BatchStart
    /\ bucket_data = << >>

NextBatch ==
    \/ \E b \in Batches : Save(b)
    \/ \E b \in Batches : Flush(b)
    \/ \E b \in Batches : Commit(b)
    \/ \E b \in Batches : Truncate(b)
    \/ \E b \in Batches : Drop(b)
    \/ \E b \in Batches : TxnBegin(b)
    \/ \E b \in Batches : TxnRetry(b)
    \/ \E b \in Batches : FlushCommit(b)
    \/ \E b \in Batches : TruncateCommit(b)
    \/ \E b \in Batches : FlushDone(b)
    \/ \E b \in Batches : TruncateDone(b)
    \/ \E b \in Batches : DropDelete(b)
    \/ \E b \in Batches : Keepalive(b)
    \/ \E b \in Batches : markSnapshotDone(b)

SpecBatch == InitBatch /\ [][NextBatch]_vars

(***************************************************************************)
(* MongoBucketBatch while the states of the sync rules change under it:    *)
(* any sync rules may be marked ERRORED or TERMINATED by another process   *)
(* at any time, before or after the batch activates its own.               *)
(***************************************************************************)
\* The states another process moves a sync rules document to.
ExternalStates == {"ERRORED", "TERMINATED"}

\* Another process updates the state of the sync rules g.
SyncRulesStateChange(g) ==
    /\ UNCHANGED syncVars
    /\ \E s \in ExternalStates :
        /\ syncRulesDoc[g].state # s
        /\ syncRulesDoc[g].state # "TERMINATED"
        /\ syncRulesDoc' = [syncRulesDoc EXCEPT ![g].state = s]
    /\ UNCHANGED << opIdSequence, bucketOps, currentData, sourceTables,
                    replicationMutex, fieldVars, bpc, call, txn, result, notified >>

InitActivate ==
    /\ SyncStart
    /\ hasDynamic = FALSE
    /\ maxBuckets = MaxBucketsPerConnection
    /\ storeCurrentData = TRUE
    /\ BatchStart
    /\ bucket_data = << >>

NextActivate ==
    \/ \E b \in Batches : Save(b)
    \/ \E b \in Batches : Commit(b)
    \/ \E b \in Batches : TxnBegin(b)
    \/ \E b \in Batches : FlushCommit(b)
    \/ \E b \in Batches : FlushDone(b)
    \/ \E b \in Batches : Keepalive(b)
    \/ \E b \in Batches : markSnapshotDone(b)
    \/ \E g \in Batches : SyncRulesStateChange(g)

SpecActivate == InitActivate /\ [][NextActivate]_vars

(***************************************************************************)
(* MongoBucketBatch fed with source transactions: batch 1 saves the        *)
(* records of a transaction one by one and commits at the LSN of the       *)
(* transaction; the source may deliver a transaction again.                *)
(***************************************************************************)
\* Highest op_id the op_id sequence reaches while transactions are delivered.
MaxReplayOps == 4

\* The batch the transactions are delivered to.
Replayer == 1
\* The row of the source table the records are about; it evaluates to one bucket.
SourceRow == "r"
\* The source transactions, as the tags of their records.
Transactions ==
    << <<"INSERT">>, <<"INSERT", "DELETE">>, <<"UPDATE">>, <<"DELETE">> >>

\* PersistedBatch.saveBucketData: the number of bucket ops it writes, one PUT
\* per evaluated bucket and one REMOVE per before_bucket that is not evaluated.
saveBucketData(evaluated, before_buckets) ==
    Cardinality(evaluated) + Cardinality(before_buckets \ evaluated)

\* saveOperation for one record (skipExistingRows false, complete rows, the
\* replica id unchanged): the bucket ops it writes and the rows of
\* current_data after it. existing_buckets are those of the current_data
\* document for UPDATE and DELETE, and none for INSERT.
saveOperation(tag, rows) ==
    LET existing_buckets ==
            IF tag \in {"UPDATE", "DELETE"} /\ SourceRow \in rows
            THEN {SourceRow} ELSE {}
    IN  IF tag = "DELETE"
        THEN [ops |-> saveBucketData({}, existing_buckets), rows |-> rows \ {SourceRow}]
        ELSE [ops |-> saveBucketData({SourceRow}, existing_buckets),
              rows |-> rows \cup {SourceRow}]

\* replicateBatch: saveOperation for each record in order.
RECURSIVE replicateBatch(_, _)
replicateBatch(recs, rows) ==
    IF recs = << >> THEN [ops |-> 0, rows |-> rows]
    ELSE LET first == saveOperation(Head(recs), rows)
             rest  == replicateBatch(Tail(recs), first.rows)
         IN  [ops |-> first.ops + rest.ops, rows |-> rest.rows]

\* The source starts delivering a transaction.
DeliverStart ==
    /\ UNCHANGED << replayRest, mongoVars, opBatch, currentRows, delivered >>
    /\ delivery = NoDelivery
    /\ bpc[Replayer] = "idle"
    /\ \E t \in DOMAIN Transactions, lsn \in Lsns :
        /\ opIdSequence + Len(Transactions[t]) <= MaxReplayOps
        /\ delivery' = [tx |-> t, pos |-> 1, lsn |-> lsn,
                        again |-> << t, lsn >> \in delivered,
                        startOps |-> Len(bucketOps),
                        startCp |-> syncRulesDoc[Replayer].last_checkpoint]

\* save(record) for the next record of the transaction.
SaveRecord ==
    /\ UNCHANGED << replayRest, currentRows, delivered >>
    /\ delivery.tx # 0
    /\ delivery.pos <= Len(Transactions[delivery.tx])
    /\ bpc[Replayer] = "idle"
    /\ opBatch' = Append(opBatch, Transactions[delivery.tx][delivery.pos])
    /\ batch' = [batch EXCEPT ![Replayer] = Buffered(Replayer) + 1]
    /\ delivery' = [delivery EXCEPT !.pos = @ + 1]
    /\ result' = [result EXCEPT ![Replayer] = "none"]
    /\ notified' = [notified EXCEPT ![Replayer] = FALSE]
    /\ UNCHANGED << dbVars, replicationMutex, persisted_op,
                    last_checkpoint_lsn, no_checkpoint_before_lsn, needsActivation,
                    bpc, call, txn >>

\* commit(lsn) at the end of the transaction.
CommitDelivery ==
    /\ delivery.tx # 0
    /\ delivery.pos > Len(Transactions[delivery.tx])
    /\ result[Replayer] = "none"
    /\ StartCall(Replayer, "commit", delivery.lsn, TRUE)

\* flushInner with the records of the batch: one transaction replicates them all.
ReplicateBatch ==
    /\ UNCHANGED << replayRest, delivery, delivered >>
    /\ bpc[Replayer] = "txn" /\ txn[Replayer].kind = "flush"
    /\ LET opSeq == txn[Replayer].opSeq
           done  == replicateBatch(opBatch, currentRows)
           last  == opSeq + done.ops
       IN  /\ bucketOps' = bucketOps \o NewOps(opSeq + 1, last)
           /\ opIdSequence' = last
           /\ currentRows' = done.rows
           /\ currentData' = [currentData EXCEPT ![Replayer] = Cardinality(done.rows)]
           /\ persisted_op' = [persisted_op EXCEPT ![Replayer] = last]
    /\ opBatch' = << >>
    /\ batch' = [batch EXCEPT ![Replayer] = None]
    /\ replicationMutex' = 0
    /\ bpc' = [bpc EXCEPT ![Replayer] = "flush"]
    /\ txn' = [txn EXCEPT ![Replayer] = NoTxn]
    /\ UNCHANGED << sourceTables, syncRulesDoc, last_checkpoint_lsn,
                    no_checkpoint_before_lsn, needsActivation, call, result,
                    notified >>

\* The commit of the transaction has returned.
Committed ==
    /\ delivery.tx # 0
    /\ delivery.pos > Len(Transactions[delivery.tx])
    /\ bpc[Replayer] = "idle"
    /\ result[Replayer] # "none"

\* The source goes on to its next transaction.
DeliveryDone ==
    /\ UNCHANGED << replayRest, mongoVars, opBatch, currentRows >>
    /\ Committed
    /\ delivered' = IF result[Replayer] = "true"
                    THEN delivered \cup {<< delivery.tx, delivery.lsn >>}
                    ELSE delivered
    /\ delivery' = NoDelivery

InitReplay ==
    /\ SyncStart
    /\ hasDynamic = FALSE
    /\ maxBuckets = MaxBucketsPerConnection
    /\ storeCurrentData = TRUE
    /\ BatchStart
    /\ bucket_data = << >>

NextReplay ==
    \/ DeliverStart
    \/ SaveRecord
    \/ CommitDelivery
    \/ TxnBegin(Replayer)
    \/ ReplicateBatch
    \/ FlushDone(Replayer)
    \/ DeliveryDone

SpecReplay == InitReplay /\ [][NextReplay]_vars

(***************************************************************************)
(* withReplicationTransaction: the tries of one replication transaction    *)
(* and the time they take.                                                 *)
(***************************************************************************)
\* Tries the model follows one transaction for.
MaxAttempts == 23
\* The clock of the model advances in steps of this many ms,
TickMs == 30000
\* and at most this many times during one transaction.
MaxTicks == 4

\* flushTry > 20
MaxTries == 20
\* lastTry = start + 90000
LastTryAfter == 90000
\* ErrorCode.PSYNC_S1402, 'Max transaction tries exceeded'
PSYNC_S1402 == "Max transaction tries exceeded"

\* A limit test that never gives up.
maxTriesExceeded_Never(tries, now) == FALSE

\* flushTry > 20 && Date.now() > lastTry (line 599), with start = 0.
maxTriesExceeded(tries, now) == tries > MaxTries /\ now > LastTryAfter

\* withReplicationTransaction is called: start = Date.now(), flushTry = 0, and
\* withTransaction hands the callback to session.withTransaction.
StartTransaction ==
    /\ UNCHANGED retryRest
    /\ rpc \in {"idle", "done", "failed"}
    /\ rpc' = "callback"
    /\ flushTry' = 0
    /\ elapsed' = 0
    /\ attemptAt' = 0
    /\ thrown' = "none"

\* The callback runs: flushTry += 1, then it throws or goes on to the
\* op_id sequence and the operations (lines 594-601).
Attempt ==
    /\ UNCHANGED retryRest
    /\ rpc = "callback"
    /\ flushTry < MaxAttempts
    /\ flushTry' = flushTry + 1
    /\ attemptAt' = elapsed
    /\ IF maxTriesExceeded(flushTry + 1, elapsed)
         THEN rpc' = "failed" /\ thrown' = PSYNC_S1402
         ELSE rpc' = "body" /\ thrown' = "none"
    /\ UNCHANGED elapsed

\* The transaction hits a transient conflict: the error is rethrown after a
\* short sleep and session.withTransaction runs the callback again.
TransientError ==
    /\ UNCHANGED retryRest
    /\ rpc = "body"
    /\ rpc' = "callback"
    /\ UNCHANGED << flushTry, elapsed, attemptAt, thrown >>

\* The callback completes and the transaction commits.
TransactionCommits ==
    /\ UNCHANGED retryRest
    /\ rpc = "body"
    /\ rpc' = "done"
    /\ UNCHANGED << flushTry, elapsed, attemptAt, thrown >>

\* Time passes while the transaction is tried.
Tick ==
    /\ UNCHANGED retryRest
    /\ rpc \in {"callback", "body"}
    /\ elapsed < MaxTicks * TickMs
    /\ elapsed' = elapsed + TickMs
    /\ UNCHANGED << rpc, flushTry, attemptAt, thrown >>

InitRetry ==
    /\ SyncStart
    /\ hasDynamic = FALSE
    /\ maxBuckets = MaxBucketsPerConnection
    /\ storeCurrentData = TRUE
    /\ BatchStart
    /\ bucket_data = << >>

NextRetry ==
    \/ StartTransaction
    \/ Attempt
    \/ TransientError
    \/ TransactionCommits
    \/ Tick

SpecRetry == InitRetry /\ [][NextRetry]_vars

(***************************************************************************)
(* Demultiplexer: subscribers with keys, the sources its factory creates   *)
(* and the loop over each source's iterator.                               *)
(***************************************************************************)
\* The value of getFirstValue(key), which is none of the stream's values.
FirstValueOf == 0

\* sinks.size of a map of sinks: a key is in the map while it has sinks.
mapSize(m) == Cardinality({k \in Keys : m[k] # {}})
AllSinks(m) == UNION {m[k] : k \in Keys}

\* A subscriber whose sink is in this.subscribers.
Registered(s) ==
    subscribers # NULL /\ s \in AllSinks(sinkMaps[subscribers])

\* addSink that starts a source for every key that has no sink yet.
needsStart_PerKey(key) ==
    currentSource = NULL \/ sinkMaps[subscribers][key] = {}

\* addSink: this.currentSource == null (line 130).
needsStart(key) == currentSource = NULL

\* subscribe(key, signal) up to its first await: a new sink, addSink (and
\* start when there is no source), then getFirstValue is called.
Subscribe(s, key) ==
    /\ UNCHANGED demuxRest
    /\ spc[s] = "idle"
    /\ IF needsStart(key)
         THEN /\ started < MaxSources
              /\ LET g == started + 1 IN
                  /\ started' = g
                  /\ abortController' = g
                  /\ subscribers' = g
                  /\ currentSource' = g
                  /\ sinkMaps' = [sinkMaps EXCEPT ![g] = [EmptySinks EXCEPT ![key] = {s}]]
                  /\ aborted' = [aborted EXCEPT ![g] = FALSE]
                  /\ upstream' = [upstream EXCEPT ![g] = "running"]
                  /\ ssource' = [ssource EXCEPT ![s] = g]
         ELSE /\ sinkMaps' = [sinkMaps EXCEPT ![subscribers][key] = @ \cup {s}]
              /\ ssource' = [ssource EXCEPT ![s] = currentSource]
              /\ UNCHANGED << started, abortController, subscribers, currentSource,
                              aborted, upstream >>
    /\ spc' = [spc EXCEPT ![s] = "first"]
    /\ skey' = [skey EXCEPT ![s] = key]
    /\ sink' = [sink EXCEPT ![s] = NewSink]
    /\ UNCHANGED << nextValue, received, missed >>

\* removeSink that stops the source when the key has no sink left.
shouldStop_KeyOnly(m, key) == m[key] = {}

\* removeSink: this.subscribers?.size == 0 (line 119), after the deletion.
shouldStop(m, key) == mapSize(m) = 0

\* removeSink(key, sink) of subscriber s.
removeSink(s) ==
    IF subscribers = NULL \/ sinkMaps[subscribers][skey[s]] = {}
    THEN UNCHANGED << subscribers, abortController, currentSource, sinkMaps, aborted >>
    ELSE LET m == [sinkMaps[subscribers] EXCEPT ![skey[s]] = @ \ {s}] IN
         /\ sinkMaps' = [sinkMaps EXCEPT ![subscribers] = m]
         /\ IF shouldStop(m, skey[s])
              THEN /\ aborted' = [aborted EXCEPT ![abortController] = TRUE]
                   /\ subscribers' = NULL
                   /\ abortController' = NULL
                   /\ currentSource' = NULL
              ELSE UNCHANGED << subscribers, abortController, currentSource, aborted >>

\* getFirstValue(key) resolves and subscribe yields it.
FirstValue(s) ==
    /\ UNCHANGED demuxRest
    /\ spc[s] = "first"
    /\ spc' = [spc EXCEPT ![s] = "live"]
    /\ received' = [received EXCEPT ![s] = << FirstValueOf >>]
    /\ UNCHANGED << subscribers, abortController, currentSource, sinkMaps, aborted,
                    upstream, started, nextValue, skey, ssource, sink, missed >>

\* sink.withSignal(signal) gives its next result: the value in the sink, or
\* the end or the error of a closed sink; the iteration of subscribe then
\* yields the value, or runs its finally block (removeSink).
Take(s) ==
    /\ UNCHANGED demuxRest
    /\ spc[s] = "live"
    /\ \/ /\ sink[s].value # NULL
          /\ received' = [received EXCEPT ![s] = Append(@, sink[s].value)]
          /\ sink' = [sink EXCEPT ![s].value = NULL]
          /\ missed' = [missed EXCEPT ![s].value = NULL]
          /\ UNCHANGED << spc, subscribers, abortController, currentSource,
                          sinkMaps, aborted >>
       \/ /\ sink[s].closed # "open"
          /\ spc' = [spc EXCEPT ![s] = IF sink[s].closed = "end" THEN "ended" ELSE "failed"]
          /\ removeSink(s)
          /\ UNCHANGED << received, sink, missed >>
    /\ UNCHANGED << upstream, started, nextValue, skey, ssource >>

\* The signal of the subscriber fires, the consumer returns, or getFirstValue
\* throws: the finally block of subscribe runs removeSink.
Cancel(s) ==
    /\ UNCHANGED demuxRest
    /\ spc[s] \in {"first", "live"}
    /\ spc' = [spc EXCEPT ![s] = "cancelled"]
    /\ removeSink(s)
    /\ UNCHANGED << upstream, started, nextValue, skey, ssource, sink, received, missed >>

\* LastValueSink.write(value): the sink keeps the last value written to it.
sinkWrite(sk, value) ==
    IF sk.closed = "open" THEN [sk EXCEPT !.value = value] ELSE sk

\* LastValueSink.end() and LastValueSink.error(e).
sinkClose(sk, closed) ==
    IF sk.closed = "open" THEN [sk EXCEPT !.closed = closed] ELSE sk

\* loop() that clears the state whenever it exits.
resets_Always(g) == TRUE

\* loop() that leaves the state as it is when it exits.
resets_Never(g) == FALSE

\* loop(), finally: this.subscribers === sinks (line 101).
resets(g) == subscribers = g

\* The end of loop(): the sinks of its map are ended or failed, and the
\* finally block clears the state if this.subscribers === sinks.
LoopExit(g, how, closed) ==
    /\ upstream' = [upstream EXCEPT ![g] = how]
    /\ sink' = [s \in Subs |->
                  IF s \in AllSinks(sinkMaps[g])
                  THEN sinkClose(sink[s], closed) ELSE sink[s]]
    /\ aborted' = IF closed = "error" THEN [aborted EXCEPT ![g] = TRUE] ELSE aborted
    /\ IF resets(g)
         THEN subscribers' = NULL /\ abortController' = NULL /\ currentSource' = NULL
         ELSE UNCHANGED << subscribers, abortController, currentSource >>
    /\ UNCHANGED << sinkMaps, started, spc, skey, ssource, received >>

\* loop() that writes only to the sinks whose subscriber has its first value.
keySinks_AfterFirst(g, key) == {s \in sinkMaps[g][key] : spc[s] = "live"}

\* loop(): sinks.get(key) (line 74).
keySinks(g, key) == sinkMaps[g][key]

\* The iterator of source g gives a document: one turn of the for-await loop.
UpstreamValue(g, key) ==
    /\ UNCHANGED demuxRest
    /\ upstream[g] = "running"
    /\ nextValue <= MaxValues
    /\ nextValue' = nextValue + 1
    /\ IF aborted[g] \/ mapSize(sinkMaps[g]) = 0
         THEN \* throw new AbortError()
              /\ LoopExit(g, "stopped", "error")
              /\ UNCHANGED missed
         ELSE /\ sink' = [s \in Subs |->
                            IF s \in keySinks(g, key)
                            THEN sinkWrite(sink[s], nextValue) ELSE sink[s]]
              /\ missed' = [s \in Subs |->
                              IF spc[s] \in {"first", "live"} /\ skey[s] = key /\ ssource[s] = g
                              THEN [value |-> nextValue, early |-> spc[s] = "first"]
                              ELSE missed[s]]
              /\ UNCHANGED << subscribers, abortController, currentSource, sinkMaps,
                              aborted, upstream, started, spc, skey, ssource, received >>

\* The iterator of source g ends.
UpstreamEnd(g) ==
    /\ UNCHANGED demuxRest
    /\ upstream[g] = "running"
    /\ LoopExit(g, "ended", "end")
    /\ UNCHANGED << nextValue, missed >>

\* The iterator of source g throws.
UpstreamError(g) ==
    /\ UNCHANGED demuxRest
    /\ upstream[g] = "running"
    /\ LoopExit(g, "errored", "error")
    /\ UNCHANGED << nextValue, missed >>

InitDemux ==
    /\ SyncStart
    /\ hasDynamic = FALSE
    /\ maxBuckets = MaxBucketsPerConnection
    /\ storeCurrentData = TRUE
    /\ BatchStart
    /\ bucket_data = << >>

NextDemux ==
    \/ \E s \in Subs, key \in Keys : Subscribe(s, key)
    \/ \E s \in Subs : FirstValue(s)
    \/ \E s \in Subs : Take(s)
    \/ \E s \in Subs : Cancel(s)
    \/ \E g \in Sources, key \in Keys : UpstreamValue(g, key)
    \/ \E g \in Sources : UpstreamEnd(g)
    \/ \E g \in Sources : UpstreamError(g)

SpecDemux == InitDemux /\ [][NextDemux]_vars

(***************************************************************************)
(* ChecksumCache: getChecksums over fetchChecksums, which is the query of   *)
(* getChecksumsInternal on the bucket_data table.                          *)
(***************************************************************************)
\* The tables the cache is checked over: the ops are PUTs of bucket test,
\* but for at most one op of bucket test2 and at most one CLEAR.
Tables ==
    {[i \in Checkpoints |->
        [bucket |-> IF i = other THEN "test2" ELSE "test",
         op |-> IF i = clear THEN "CLEAR" ELSE "PUT"]] :
     other \in 0..MaxCacheOp, clear \in 0..MaxCacheOp}

\* The checkpoints getChecksums is called with: the last two.
Requested == {MaxCacheOp - 1, MaxCacheOp}

\* The checksum column of the row with op_id i.
RowChecksum(i) == Add32(ChecksumSeed, i)

\* The rows the query joins to one element of the batch:
\* b.op_id > f.start_op_id AND b.op_id <= f.end_op_id.
RowsOf(bucket, start, end) ==
    {i \in DOMAIN bucket_data :
        bucket_data[i].bucket = bucket /\ i > start /\ i <= end}

\* A bigint sum plus an int32: the sum is wraps * 2^32 + low.
AddTotal(total, x) ==
    LET low == Add32(total.low, x) IN
    [low |-> low,
     wraps |-> IF total.low >= 0 /\ x >= 0 /\ low < 0 THEN total.wraps + 1
               ELSE IF total.low < 0 /\ x < 0 /\ low >= 0 THEN total.wraps - 1
               ELSE total.wraps]

RECURSIVE checksum_total(_)
\* SUM(b.checksum) over the rows.
checksum_total(rows) ==
    IF rows = {} THEN [low |-> 0, wraps |-> 0]
    ELSE LET i == CHOOSE x \in rows : \A y \in rows : x >= y
         IN AddTotal(checksum_total(rows \ {i}), RowChecksum(i))

\* The sum without the mask: out of the int32 range it is clamped.
partialChecksum_Clamped(total) ==
    IF total.wraps > 0 THEN INT32_MAX
    ELSE IF total.wraps < 0 THEN 0 - INT32_MAX - 1
    ELSE total.low

\* Number(BigInt(doc.checksum_total) & 0xffffffffn) & 0xffffffff: the low 32
\* bits of the sum, as an int32.
partialChecksum(total) == total.low

\* getChecksumsInternal for one element of the batch: the PartialChecksum of
\* the bucket, or nothing when the query has no row for it (GROUP BY).
getChecksumsInternal(request) ==
    LET rows == RowsOf(request.bucket, request.start, request.end) IN
    IF rows = {} THEN {}
    ELSE {[partialCount |-> Cardinality(rows),
           partialChecksum |-> partialChecksum(checksum_total(rows)),
           isFullChecksum |-> \E i \in rows : bucket_data[i].op = "CLEAR"]}

\* The checksum of no ops.
ZeroChecksum == [checksum |-> 0, count |-> 0]

\* The cache adds a partial checksum to the cached checksum it starts from,
\* unless the partial checksum is a full one.
addPartialChecksums(prefix, fetched) ==
    IF fetched = {} THEN prefix
    ELSE LET partial == CHOOSE x \in fetched : TRUE IN
         IF partial.isFullChecksum
         THEN [checksum |-> partial.partialChecksum, count |-> partial.partialCount]
         ELSE [checksum |-> Add32(prefix.checksum, partial.partialChecksum),
               count |-> prefix.count + partial.partialCount]

\* A cache that fetches again what another call is fetching.
needsFetch_IgnorePending(bucket, checkpoint) ==
    cache[bucket][checkpoint].state # "done"

\* The cache has no entry, complete or in flight, for the bucket at the checkpoint.
needsFetch(bucket, checkpoint) ==
    cache[bucket][checkpoint].state = "none"

\* A cache that starts from entries that are still in flight.
Starts_Pending(bucket, checkpoint) ==
    LET known == {a \in 1..(checkpoint - 1) : cache[bucket][a].state # "none"}
    IN IF known = {} THEN {0} ELSE known

\* Where a lookup of the bucket up to the checkpoint may start: after a
\* checkpoint with a complete entry, if there is one, or else at 0.
Starts(bucket, checkpoint) ==
    LET done == {a \in 1..(checkpoint - 1) : cache[bucket][a].state = "done"}
    IN IF done = {} THEN {0} ELSE done

\* The cached checksum a lookup that starts at a builds on.
PrefixOf(bucket, a) ==
    IF a = 0 \/ cache[bucket][a].state # "done" THEN ZeroChecksum
    ELSE [checksum |-> cache[bucket][a].checksum, count |-> cache[bucket][a].count]

\* getChecksums(checkpoint, buckets) up to its await: the buckets with no
\* entry are fetched in one batch, the others share the entry there is.
GetChecksums(c, checkpoint, buckets) ==
    /\ UNCHANGED cacheRest
    /\ calls[c].pc = "idle"
    /\ buckets # {}
    /\ LET toFetch == {b \in buckets : needsFetch(b, checkpoint)} IN
       \E st \in [CacheBuckets -> 0..MaxCacheOp] :
          /\ \A b \in CacheBuckets :
                st[b] \in (IF b \in toFetch THEN Starts(b, checkpoint) ELSE {0})
          /\ inflight' = [inflight EXCEPT ![c] =
                 {[bucket |-> b, start |-> st[b], end |-> checkpoint] : b \in toFetch}]
          /\ cache' = [b \in CacheBuckets |->
                 IF b \in toFetch
                 THEN [cache[b] EXCEPT ![checkpoint] =
                         [state |-> "pending", start |-> st[b],
                          prefix |-> PrefixOf(b, st[b])]]
                 ELSE cache[b]]
    /\ calls' = [calls EXCEPT ![c] =
          [pc |-> "waiting", checkpoint |-> checkpoint, buckets |-> buckets]]
    /\ UNCHANGED bucket_data

\* fetchChecksums(batch) of caller c resolves: its entries are complete.
FetchDone(c) ==
    /\ UNCHANGED cacheRest
    /\ inflight[c] # {}
    /\ cache' = [b \in CacheBuckets |-> [e \in Checkpoints |->
          IF \E r \in inflight[c] : r.bucket = b /\ r.end = e
          THEN LET r == CHOOSE r \in inflight[c] : r.bucket = b /\ r.end = e
                   sum == addPartialChecksums(cache[b][e].prefix, getChecksumsInternal(r))
               IN [state |-> "done", checksum |-> sum.checksum, count |-> sum.count,
                   start |-> r.start]
          ELSE cache[b][e]]]
    /\ inflight' = [inflight EXCEPT ![c] = {}]
    /\ UNCHANGED << bucket_data, calls >>

\* The entries of the call of c are complete.
Resolved(c) ==
    \A b \in calls[c].buckets : cache[b][calls[c].checkpoint].state = "done"

\* What getChecksums of caller c returns: the checksums of its buckets.
ResultOf(c) ==
    {[bucket |-> b,
      checksum |-> cache[b][calls[c].checkpoint].checksum,
      count |-> cache[b][calls[c].checkpoint].count] : b \in calls[c].buckets}

\* getChecksums of caller c returns ResultOf(c).
Return(c) ==
    /\ UNCHANGED cacheRest
    /\ calls[c].pc = "waiting"
    /\ Resolved(c)
    /\ calls' = [calls EXCEPT ![c] = NoGet]
    /\ UNCHANGED << bucket_data, cache, inflight >>

\* The cache evicts a complete entry that no call is waiting for.
Evict(bucket, checkpoint) ==
    /\ UNCHANGED cacheRest
    /\ cache[bucket][checkpoint].state = "done"
    /\ \A c \in Callers :
          calls[c].pc = "waiting" =>
              ~(calls[c].checkpoint = checkpoint /\ bucket \in calls[c].buckets)
    /\ cache' = [cache EXCEPT ![bucket][checkpoint] = NoEntry]
    /\ UNCHANGED << bucket_data, inflight, calls >>

InitCache ==
    /\ SyncStart
    /\ hasDynamic = FALSE
    /\ maxBuckets = MaxBucketsPerConnection
    /\ storeCurrentData = TRUE
    /\ BatchStart
    /\ bucket_data \in Tables

NextCache ==
    \/ \E c \in Callers, checkpoint \in Requested, buckets \in SUBSET CacheBuckets :
          GetChecksums(c, checkpoint, buckets)
    \/ \E c \in Callers : FetchDone(c)
    \/ \E c \in Callers : Return(c)
    \/ \E bucket \in CacheBuckets, checkpoint \in Requested : Evict(bucket, checkpoint)

SpecCache == InitCache /\ [][NextCache]_vars

(***************************************************************************)
(* syncSemaphore: the bucketDataBatch executions of several connections.   *)
(***************************************************************************)
\* bucketDataBatch is called for connection k and awaits the semaphore.
BatchCall(k) ==
    /\ UNCHANGED semRest
    /\ dpc[k] = "idle"
    /\ dpc' = [dpc EXCEPT ![k] = "waiting"]
    /\ outcome' = [outcome EXCEPT ![k] = "none"]
    /\ abort_batch' = [abort_batch EXCEPT ![k] = FALSE]
    /\ UNCHANGED << semValue, held >>

\* abort_batch of connection k fires (a new checkpoint, or the connection closes).
AbortBatch(k) ==
    /\ UNCHANGED semRest
    /\ dpc[k] # "idle"
    /\ ~abort_batch[k]
    /\ abort_batch' = [abort_batch EXCEPT ![k] = TRUE]
    /\ UNCHANGED << semValue, dpc, held, outcome >>

\* acquireSemaphoreAbortable resolves with [value, release]: a permit is
\* taken, and bucketDataBatch enters its try block.
Acquired(k) ==
    /\ UNCHANGED semRest
    /\ dpc[k] = "waiting"
    /\ ~abort_batch[k]
    /\ semValue > 0
    /\ semValue' = semValue - 1
    /\ held' = [held EXCEPT ![k] = @ + 1]
    /\ dpc' = [dpc EXCEPT ![k] = "running"]
    /\ UNCHANGED << abort_batch, outcome >>

\* acquireSemaphoreAbortable resolves with 'aborted' and bucketDataBatch
\* returns (lines 295-297); or the wait times out and acquire rejects.
NotAcquired(k, how) ==
    /\ UNCHANGED semRest
    /\ dpc[k] = "waiting"
    /\ how = "aborted" => abort_batch[k]
    /\ how = "timeout" => semValue = 0
    /\ dpc' = [dpc EXCEPT ![k] = "idle"]
    /\ outcome' = [outcome EXCEPT ![k] = how]
    /\ UNCHANGED << semValue, held, abort_batch >>

\* bucketDataBatch yields a line and is suspended at the yield.
BatchYield(k) ==
    /\ UNCHANGED semRest
    /\ dpc[k] = "running"
    /\ dpc' = [dpc EXCEPT ![k] = "yielded"]
    /\ UNCHANGED << semValue, held, abort_batch, outcome >>

\* The consumer asks for the next line.
BatchResume(k) ==
    /\ UNCHANGED semRest
    /\ dpc[k] = "yielded"
    /\ dpc' = [dpc EXCEPT ![k] = "running"]
    /\ UNCHANGED << semValue, held, abort_batch, outcome >>

\* A finally block that releases only when the try block ran to its end.
releases_OnCompletionOnly(how) == how = "complete"

\* finally { release() } (lines 394-403): on every way out of the try block.
releases(how) == TRUE

\* The ways out of the try block of bucketDataBatch.
ExitPaths == {"complete", "abort_connection", "abort_batch", "return", "error"}

\* bucketDataBatch leaves its try block: it completes, returns because the
\* connection is aborted, breaks because abort_batch is aborted, is ended by
\* the consumer's return() while suspended at a yield, or the storage
\* iterator throws.
BatchExit(k, how) ==
    /\ UNCHANGED semRest
    /\ dpc[k] = (IF how = "return" THEN "yielded" ELSE "running")
    /\ how \in {"abort_connection", "abort_batch"} => abort_batch[k]
    /\ IF releases(how)
         THEN /\ semValue' = semValue + 1
              /\ held' = [held EXCEPT ![k] = @ - 1]
         ELSE UNCHANGED << semValue, held >>
    /\ dpc' = [dpc EXCEPT ![k] = "idle"]
    /\ outcome' = [outcome EXCEPT ![k] = how]
    /\ UNCHANGED abort_batch

InitSemaphore ==
    /\ SyncStart
    /\ hasDynamic = FALSE
    /\ maxBuckets = MaxBucketsPerConnection
    /\ storeCurrentData = TRUE
    /\ BatchStart
    /\ bucket_data = << >>

NextSemaphore ==
    \/ \E k \in Connections : BatchCall(k)
    \/ \E k \in Connections : AbortBatch(k)
    \/ \E k \in Connections : Acquired(k)
    \/ \E k \in Connections, how \in {"aborted", "timeout"} : NotAcquired(k, how)
    \/ \E k \in Connections : BatchYield(k)
    \/ \E k \in Connections : BatchResume(k)
    \/ \E k \in Connections, how \in ExitPaths : BatchExit(k, how)

SpecSemaphore == InitSemaphore /\ [][NextSemaphore]_vars

(***************************************************************************)
(* streamResponse: the stream of a connection merged with its token stream *)
(* under the controller that the parent signal aborts.                     *)
(***************************************************************************)
\* The parent signal fires: the listener of streamResponse, if it is
\* registered, aborts the controller (lines 56-63).
ParentAbort ==
    /\ UNCHANGED respRest
    /\ ~signalAborted
    /\ signalAborted' = TRUE
    /\ controllerAborted' = (controllerAborted \/ spr = "streaming")
    /\ UNCHANGED << spr, inner, ki, linesOut, failure >>

\* The first next(): the controller, the listener, the test of
\* signal.aborted, and the three streams (lines 54-70).
ResponseBegin ==
    /\ UNCHANGED respRest
    /\ spr = "unstarted"
    /\ spr' = "streaming"
    /\ controllerAborted' = signalAborted
    /\ UNCHANGED << signalAborted, inner, ki, linesOut, failure >>

\* merged gives a line of streamResponseInner or of tokenStream, and
\* streamResponse yields it. A merged stream whose signal is aborted, or one
\* of whose streams has ended, gives no more lines.
YieldLine(from) ==
    /\ UNCHANGED respRest
    /\ spr = "streaming"
    /\ ~controllerAborted
    /\ inner \in {"running", "waiting"} /\ ki = "running"
    /\ from = "stream" => inner = "running"
    /\ Len(linesOut) < MaxLines
    /\ linesOut' = Append(linesOut, IF from = "stream" THEN "data" ELSE "token_expires_in")
    /\ UNCHANGED << signalAborted, controllerAborted, spr, inner, ki, failure >>

\* streamResponseInner waits: for the next checkpoint, or for the semaphore
\* in bucketDataBatch; or the wait is over.
InnerWait ==
    /\ UNCHANGED respRest
    /\ spr = "streaming"
    /\ inner \in {"running", "waiting"}
    /\ inner' = IF inner = "running" THEN "waiting" ELSE "running"
    /\ UNCHANGED << signalAborted, controllerAborted, spr, ki, linesOut, failure >>

\* The token expires: tokenStream ends.
TokenExpires ==
    /\ UNCHANGED respRest
    /\ spr = "streaming"
    /\ ki = "running"
    /\ ~controllerAborted
    /\ ki' = "ended"
    /\ UNCHANGED << signalAborted, controllerAborted, spr, inner, linesOut, failure >>

\* streamResponseInner throws an error of its own (storage, too many buckets).
InnerFails ==
    /\ UNCHANGED respRest
    /\ spr = "streaming"
    /\ inner = "running"
    /\ ~controllerAborted /\ ki = "running"
    /\ inner' = "failed"
    /\ UNCHANGED << signalAborted, controllerAborted, spr, ki, linesOut, failure >>

\* What yield* merged ends with.
MergedOutcome ==
    IF inner = "failed" THEN "Error"
    ELSE IF controllerAborted THEN "AbortError"
    ELSE IF ki = "ended" THEN "done"
    ELSE "none"

\* A catch block that rethrows every error.
swallowed_Nothing(e) == FALSE

\* catch (e): e instanceof AbortError returns, anything else is thrown
\* again (lines 74-80).
swallowed(e) == e = "AbortError"

\* yield* merged ends or throws: the catch block, and the finally block
\* that aborts the controller (lines 72-85).
ResponseEnds ==
    /\ UNCHANGED respRest
    /\ spr = "streaming"
    /\ MergedOutcome # "none"
    /\ failure' = IF MergedOutcome = "done" THEN "none" ELSE MergedOutcome
    /\ spr' = IF MergedOutcome = "done" \/ swallowed(MergedOutcome)
              THEN "returned" ELSE "threw"
    /\ controllerAborted' = TRUE
    /\ UNCHANGED << signalAborted, inner, ki, linesOut >>

\* The consumer stops reading: return() at the yield runs the finally block.
ResponseReturn ==
    /\ UNCHANGED respRest
    /\ spr = "streaming"
    /\ linesOut # << >>
    /\ spr' = "returned"
    /\ controllerAborted' = TRUE
    /\ UNCHANGED << signalAborted, inner, ki, linesOut, failure >>

\* The controller is aborted: the checkpoint subscription, the bucket fetch
\* and the wait for the semaphore of streamResponseInner end, and so does
\* the token stream.
Unwind ==
    /\ UNCHANGED respRest
    /\ controllerAborted
    /\ inner \in {"running", "waiting"} \/ ki = "running"
    /\ inner' = IF inner \in {"running", "waiting"} THEN "unwound" ELSE inner
    /\ ki' = IF ki = "running" THEN "unwound" ELSE ki
    /\ UNCHANGED << signalAborted, controllerAborted, spr, linesOut, failure >>

InitResponse ==
    /\ SyncStart
    /\ hasDynamic = FALSE
    /\ maxBuckets = MaxBucketsPerConnection
    /\ storeCurrentData = TRUE
    /\ BatchStart
    /\ bucket_data = << >>

NextResponse ==
    \/ ParentAbort
    \/ ResponseBegin
    \/ \E from \in {"stream", "ki"} : YieldLine(from)
    \/ InnerWait
    \/ TokenExpires
    \/ InnerFails
    \/ ResponseEnds
    \/ ResponseReturn
    \/ Unwind

SpecResponse == InitResponse /\ [][NextResponse]_vars

\* The consumer iterates the response (for await), and aborted streams get
\* to run their handlers.
SpecResponseLive ==
    /\ SpecResponse
    /\ WF_vars(ResponseBegin)
    /\ WF_vars(ResponseEnds)
    /\ WF_vars(Unwind)

(***************************************************************************)
(* MongoBucketBatch row by row: save, flush (replicateBatch and            *)
(* saveOperation) and truncate for one source table that syncs data and    *)
(* parameters, with complete rows and without skipExistingRows.            *)
(***************************************************************************)
\* MAX_ROW_SIZE = 15 * 1024 * 1024
MAX_ROW_SIZE == 15728640

\* The replica identities the rows of the table take; "" is null.
RowIds == {"k1", "k2"}

\* What a record carries as record.after: the buckets the data queries
\* evaluate the row to, the lookups its parameter queries give, and the
\* length of its serialization.
Rows ==
    { [buckets |-> {},         lookups |-> {},    size |-> 1],
      [buckets |-> {"x"},      lookups |-> {"l"}, size |-> MAX_ROW_SIZE],
      [buckets |-> {"x", "y"}, lookups |-> {},    size |-> 1],
      [buckets |-> {"y"},      lookups |-> {"l"}, size |-> MAX_ROW_SIZE + 1] }

\* RecordOperation: beforeId = record.beforeReplicaId ?? record.afterReplicaId.
RecordOperation(tag, beforeReplicaId, afterReplicaId, after) ==
    [tag |-> tag,
     beforeId |-> IF beforeReplicaId # "" THEN beforeReplicaId ELSE afterReplicaId,
     afterId |-> afterReplicaId,
     after |-> after]

\* The records the source can produce next for its table.
SourceRecords ==
    LET ids == DOMAIN sourceRows
    IN  {RecordOperation("INSERT", "", k, row) : k \in RowIds \ ids, row \in Rows}
        \cup {RecordOperation("UPDATE", "", k, row) : k \in ids, row \in Rows}
        \cup {RecordOperation("UPDATE", k[1], k[2], row) :
                 k \in ids \X (RowIds \ ids), row \in Rows}
        \cup {RecordOperation("DELETE", k, "", sourceRows[k]) : k \in ids}

RECURSIVE OpsFor(_, _, _)
\* One bucket op of a kind for a row in each bucket of a set.
OpsFor(op, buckets, sourceKey) ==
    IF buckets = {} THEN << >>
    ELSE LET b == CHOOSE x \in buckets : TRUE
         IN  << [op |-> op, bucket |-> b, key |-> sourceKey] >>
                 \o OpsFor(op, buckets \ {b}, sourceKey)

\* PersistedBatch.saveBucketData: a PUT in each evaluated bucket, then a
\* REMOVE in each of before_buckets the row is no longer evaluated to.
saveBucketDataOps(sourceKey, evaluated, before_buckets) ==
    OpsFor("PUT", evaluated, sourceKey)
        \o OpsFor("REMOVE", before_buckets \ evaluated, sourceKey)

\* PersistedBatch.saveParameterData: the parameter rows of the source key
\* are those of its evaluated lookups.
saveParameterDataRows(rows, sourceKey, evaluated, existing_lookups) ==
    (rows \ {<< l, sourceKey >> : l \in existing_lookups})
        \cup {<< l, sourceKey >> : l \in evaluated}

\* PersistedBatch.upsertCurrentData and deleteCurrentData.
upsertCurrentData(data, key, doc) ==
    [k \in DOMAIN data \cup {key} |-> IF k = key THEN doc ELSE data[k]]
deleteCurrentData(data, key) == [k \in DOMAIN data \ {key} |-> data[k]]

\* A size test that lets every row through.
tooLarge_Never(length) == FALSE

\* afterData.length() > MAX_ROW_SIZE (a serialization over 16MB throws in
\* bson.serialize and is caught by the same handler).
tooLarge(length) == length > MAX_ROW_SIZE

\* catch (e) of the size test: the handler reports e and throws nothing.
rethrown(e) == FALSE

\* A change of the replica id that is taken for none.
sourceIdUpdated_Never(beforeId, afterId) == FALSE

\* beforeId != null && (afterId == null || !replicaIdEquals(beforeId, afterId))
sourceIdUpdated(beforeId, afterId) ==
    beforeId # "" /\ (afterId = "" \/ beforeId # afterId)

\* Current data kept only for the rows that are in a bucket.
keepsCurrentData_InBucketsOnly(afterId, new_buckets) ==
    afterId # "" /\ new_buckets # {}

\* if (afterId): insert or update current data
keepsCurrentData(afterId, new_buckets) == afterId # ""

\* saveOperation for one record, against the current_data, bucket ops and
\* parameter rows as the records before it in the batch left them: the bucket
\* ops it adds, the parameter rows and current_data after it, and the
\* messages it gives to the error reporter, and whether it throws.
saveOperationRow(operation) ==
    LET beforeId == operation.beforeId
        afterId  == operation.afterId
        found == /\ operation.tag \in {"UPDATE", "DELETE"}
                 /\ beforeId \in DOMAIN current_data
        existing_buckets == IF found THEN current_data[beforeId].buckets ELSE {}
        existing_lookups == IF found THEN current_data[beforeId].lookups ELSE {}
        \* the size is tested only where the row is stored (lines 392-401)
        oversize == /\ afterId # ""
                    /\ storeCurrentData
                    /\ tooLarge(operation.after.size)
        \* isCompleteRow: the placeholder of an oversize row has no column set
        complete == afterId # "" /\ ~oversize
        changed == sourceIdUpdated(beforeId, afterId)
        removeOld == IF changed
                     THEN saveBucketDataOps(beforeId, {}, existing_buckets) ELSE << >>
        paramsOld == IF changed
                     THEN saveParameterDataRows(bucket_parameters, beforeId, {},
                                                existing_lookups)
                     ELSE bucket_parameters
        before_buckets == IF changed THEN {} ELSE existing_buckets
        before_lookups == IF changed THEN {} ELSE existing_lookups
        new_buckets == IF complete THEN operation.after.buckets ELSE {}
        new_lookups == IF complete THEN operation.after.lookups ELSE {}
        putNew == IF complete
                  THEN saveBucketDataOps(afterId, new_buckets, before_buckets)
                  ELSE << >>
        paramsNew == IF complete
                     THEN saveParameterDataRows(paramsOld, afterId, new_lookups,
                                                before_lookups)
                     ELSE paramsOld
        upserted == IF keepsCurrentData(afterId, new_buckets)
                    THEN upsertCurrentData(current_data, afterId,
                            [data |-> IF oversize \/ ~storeCurrentData
                                      THEN "empty" ELSE "row",
                             buckets |-> new_buckets, lookups |-> new_lookups])
                    ELSE current_data
        data == IF afterId = "" \/ beforeId # afterId
                THEN deleteCurrentData(upserted, beforeId) ELSE upserted
    IN  [ops |-> removeOld \o putNew, params |-> paramsNew, data |-> data,
         reported |-> IF oversize THEN 1 ELSE 0,
         raised |-> oversize /\ rethrown("PSYNC_S1002")]

\* What truncateSingle starts from: the rows of current_data and the number of
\* bucket ops written before it.
TruncateFrom(data) == [rows |-> data, ops |-> Len(bucket_ops)]

\* save(record): the record joins this.batch.
SaveRow(record) ==
    /\ UNCHANGED << rowRest, storeCurrentData >>
    /\ rowpc = "idle"
    /\ produced < MaxRecords
    /\ record \in SourceRecords
    /\ records' = Append(records, record)
    /\ sourceRows' =
          [k \in (DOMAIN sourceRows \ {record.beforeId})
                    \cup (IF record.afterId # "" THEN {record.afterId} ELSE {}) |->
              IF k = record.afterId THEN record.after ELSE sourceRows[k]]
    /\ produced' = produced + 1
    /\ UNCHANGED << current_data, bucket_ops, bucket_parameters, reported, rowpc,
                    lastBatchCount, truncating >>

\* flush() with records in the batch.
FlushRows ==
    /\ UNCHANGED << rowRest, storeCurrentData >>
    /\ rowpc = "idle"
    /\ records # << >>
    /\ rowpc' = "flush"
    /\ UNCHANGED << current_data, bucket_ops, bucket_parameters, records,
                    sourceRows, reported, lastBatchCount, truncating, produced >>

\* replicateBatch: saveOperation for the next record of the batch; the flush
\* ends with the last one, and a truncate that called it goes on.
ReplicateOp ==
    /\ UNCHANGED << rowRest, storeCurrentData >>
    /\ rowpc \in {"flush", "truncate_flush"}
    /\ records # << >>
    /\ LET saved == saveOperationRow(Head(records))
       IN  IF saved.raised
           THEN /\ rowpc' = "failed"
                /\ UNCHANGED << current_data, bucket_ops, bucket_parameters,
                                records, reported, truncating, lastBatchCount >>
           ELSE /\ bucket_ops' = bucket_ops \o saved.ops
                /\ bucket_parameters' = saved.params
                /\ current_data' = saved.data
                /\ reported' = reported + saved.reported
                /\ records' = Tail(records)
                /\ IF Tail(records) # << >>
                     THEN UNCHANGED << rowpc, truncating, lastBatchCount >>
                   ELSE IF rowpc = "flush"
                     THEN rowpc' = "idle" /\ UNCHANGED << truncating, lastBatchCount >>
                   ELSE /\ rowpc' = "truncate"
                        /\ truncating' = [rows |-> saved.data,
                                          ops |-> Len(bucket_ops) + Len(saved.ops)]
                        /\ lastBatchCount' = TruncateLimit
    /\ UNCHANGED << sourceRows, produced >>

\* The source truncates the table: truncate() flushes and starts truncateSingle.
TruncateRows ==
    /\ UNCHANGED << rowRest, storeCurrentData >>
    /\ rowpc = "idle"
    /\ produced < MaxRecords
    /\ produced' = produced + 1
    /\ sourceRows' = << >>
    /\ IF records # << >>
         THEN rowpc' = "truncate_flush" /\ UNCHANGED << truncating, lastBatchCount >>
         ELSE /\ rowpc' = "truncate"
              /\ truncating' = TruncateFrom(current_data)
              /\ lastBatchCount' = TruncateLimit
    /\ UNCHANGED << current_data, bucket_ops, bucket_parameters, records, reported >>

RECURSIVE truncateOps(_, _)
\* The bucket ops of one truncateSingle transaction for the rows it read.
truncateOps(keys, data) ==
    IF keys = {} THEN << >>
    ELSE LET k == CHOOSE x \in keys : TRUE
         IN  saveBucketDataOps(k, {}, data[k].buckets) \o truncateOps(keys \ {k}, data)

\* The loop test of truncateSingle stopping at the first batch.
truncateGoesOn_Once(count) == FALSE

\* while (lastBatchCount == BATCH_LIMIT)
truncateGoesOn(count) == count = TruncateLimit

\* One transaction of truncateSingle: up to BATCH_LIMIT rows of current_data,
\* in whatever order the cursor returns them.
TruncateBatch ==
    /\ UNCHANGED << rowRest, storeCurrentData >>
    /\ rowpc = "truncate"
    /\ truncateGoesOn(lastBatchCount)
    /\ \E batchKeys \in SUBSET DOMAIN current_data :
          /\ Cardinality(batchKeys) = Min(TruncateLimit, Cardinality(DOMAIN current_data))
          /\ bucket_ops' = bucket_ops \o truncateOps(batchKeys, current_data)
          /\ bucket_parameters' =
                {p \in bucket_parameters : p[2] \notin batchKeys}
          /\ current_data' = [k \in DOMAIN current_data \ batchKeys |-> current_data[k]]
          /\ lastBatchCount' = Cardinality(batchKeys)
    /\ UNCHANGED << records, sourceRows, reported, rowpc, truncating, produced >>

\* truncateSingle returns.
TruncateReturn ==
    /\ UNCHANGED << rowRest, storeCurrentData >>
    /\ rowpc = "truncate"
    /\ ~truncateGoesOn(lastBatchCount)
    /\ rowpc' = "idle"
    /\ UNCHANGED << current_data, bucket_ops, bucket_parameters, records,
                    sourceRows, reported, lastBatchCount, truncating, produced >>

InitRows ==
    /\ SyncStart
    /\ hasDynamic = FALSE
    /\ maxBuckets = MaxBucketsPerConnection
    /\ storeCurrentData \in BOOLEAN
    /\ BatchStart
    /\ bucket_data = << >>

NextRows ==
    \/ \E record \in SourceRecords : SaveRow(record)
    \/ FlushRows
    \/ ReplicateOp
    \/ TruncateRows
    \/ TruncateBatch
    \/ TruncateReturn

SpecRows == InitRows /\ [][NextRows]_vars

(***************************************************************************)
(* KeyStore.getCachedKey: the key a token is verified with, for the keys   *)
(* and errors the collector returns at the call.                           *)
(***************************************************************************)
KeyKids == {Undefined, "", "k1"}
TokenKids == {Undefined, "", "k1", "other"}
Algorithms == {"HS256", "RS256"}
Secrets == {1, 2}

\* A KeySpec: its kid, its algorithm and the secret its signatures are made with.
KeySpecs == [kid : KeyKids, alg : Algorithms, secret : Secrets]
KeyLists == UNION {[1..n -> KeySpecs] : n \in 0..MaxKeys}
\* A token: the kid and alg of its header and the secret it was signed with.
Tokens == [kid : TokenKids, alg : Algorithms, signedWith : Secrets]
\* What collector.getKeys() reports next to the keys.
ErrorLists == {<< >>, << "JWKS_FETCH_FAILED" >>}

\* key.matchesAlgorithm(header.alg).
matchesAlgorithm(key, alg) == key.alg = alg

\* key.isValidSignature(token).
isValidSignature(key, token) == key.secret = token.signedWith

\* `if (kid)`: undefined and the empty string are falsy.
hasKid(kid) == kid \notin {Undefined, ""}

\* `key.kid != null`: not a wildcard key.
notWildcard(key) == key.kid # Undefined

\* The first index of a non-empty set of indices: the loops go in list order.
FirstOf(S) == CHOOSE i \in S : \A j \in S : i <= j

keyReturned(i) == [kind |-> "key", key |-> i, error |-> "", noKeyFound |-> FALSE]
keyThrown(e, refresh) == [kind |-> "throw", key |-> 0, error |-> e, noKeyFound |-> refresh]

\* `errors.length > 0`: the collector reported errors with the keys.
collectorFailed_Never(errors) == FALSE
collectorFailed(errors) == Len(errors) > 0

\* getCachedKey(token, header): the key returned or the error thrown, and
\* whether collector.noKeyFound was reached.
getCachedKey(keys, errors, token) ==
    LET withKid == IF hasKid(token.kid)
                   THEN {i \in DOMAIN keys : keys[i].kid = token.kid} ELSE {}
        verified == {i \in DOMAIN keys :
                        /\ ~notWildcard(keys[i])
                        /\ matchesAlgorithm(keys[i], token.alg)
                        /\ isValidSignature(keys[i], token)}
    IN  IF withKid # {}
        THEN IF ~matchesAlgorithm(keys[FirstOf(withKid)], token.alg)
             THEN keyThrown("Unexpected token algorithm", FALSE)
             ELSE keyReturned(FirstOf(withKid))
        ELSE IF verified # {} THEN keyReturned(FirstOf(verified))
        ELSE IF collectorFailed(errors) THEN keyThrown(errors[1], FALSE)
        ELSE keyThrown("Could not find an appropriate key in the keystore", TRUE)

\* One call of getCachedKey for a token, with what getKeys() returns then.
GetCachedKey ==
    /\ kpc = "idle"
    /\ \E keys \in KeyLists, errors \in ErrorLists, token \in Tokens,
          hasNoKeyFound \in BOOLEAN :
          LET r == getCachedKey(keys, errors, token)
          IN  /\ keyCall' = [keys |-> keys, errors |-> errors, token |-> token,
                             hasNoKeyFound |-> hasNoKeyFound]
              /\ keyResult' = [kind |-> r.kind, key |-> r.key, error |-> r.error]
              /\ refreshed' = (r.noKeyFound /\ hasNoKeyFound)
    /\ kpc' = "done"
    /\ UNCHANGED keyRest

\* verifyInternal hands the key to jose.jwtVerify, or maps the error and
\* throws it: the store is ready for the next token.
VerifyInternalEnd ==
    /\ kpc = "done"
    /\ kpc' = "idle"
    /\ keyCall' = NoKeyCall
    /\ keyResult' = NoKeyResult
    /\ refreshed' = FALSE
    /\ UNCHANGED keyRest

InitKeys ==
    /\ SyncStart
    /\ hasDynamic = FALSE
    /\ maxBuckets = MaxBucketsPerConnection
    /\ storeCurrentData = TRUE
    /\ BatchStart
    /\ bucket_data = << >>

NextKeys ==
    \/ GetCachedKey
    \/ VerifyInternalEnd

SpecKeys == InitKeys /\ [][NextKeys]_vars

(***************************************************************************)
(* The sync stream of a connection whose parameter query loses its row:    *)
(* replication writes to c, removes the parameter row, and writes to c, a  *)
(* and b, a bucket the connection no longer has.                           *)
(***************************************************************************)
PreemptLog == << "c", ParamOp, "c", "a", "b" >>

PreemptStorage ==
    \/ /\ Len(opLog) < Len(PreemptLog)
       /\ opLog' = Append(opLog, PreemptLog[Len(opLog) + 1])
       /\ UNCHANGED << storageCp, writeCp, watchLast >>
    \/ StorageCommit
    \/ StorageWriteCheckpoint

PreemptStorageStep ==
    /\ UNCHANGED bvars
    /\ pc = "await" \/ nextPromise = "race"
    /\ pc \notin {"ended", "error"}
    /\ PreemptStorage
    /\ UNCHANGED << rulesVars, stateVars, loopVars, batchVars, clientVars,
                    pc, nextPromise, raceValue, abortCtl, connAborted >>

InitPreempt ==
    /\ SyncStart
    /\ hasDynamic = TRUE
    /\ maxBuckets = MaxBucketsPerConnection
    /\ storeCurrentData = TRUE
    /\ BatchStart
    /\ bucket_data = << >>

NextPreempt ==
    \/ AwaitCheckpoint
    \/ AwaitDone
    \/ RaceResolve
    \/ PriorityLoop
    \/ DataInBatchesLoop
    \/ DataBatchStart
    \/ DataBatchYield
    \/ DataBatchSent
    \/ DataBatchFinish
    \/ IterationEnd
    \/ ConnectionAbort
    \/ PreemptStorageStep

SpecPreempt == InitPreempt /\ [][NextPreempt]_vars

(***************************************************************************)
(* AbstractMigrationAgent: runs of migrations up and down over one list of  *)
(* migrations, with the state of the runs kept in the MigrationStore.       *)
(***************************************************************************)
MigrationNames == << "a", "b", "c" >>
Directions == {"up", "down"}

\* migrations.reverse().
Reverse(list) == [i \in 1..Len(list) |-> list[Len(list) + 1 - i]]

\* migrations.findIndex(m => m.name === name): zero-based, -1 when absent.
findIndex(list, name) ==
    IF \E i \in 1..Len(list) : list[i] = name
    THEN (CHOOSE i \in 1..Len(list) :
              /\ list[i] = name
              /\ \A j \in 1..(i - 1) : list[j] # name) - 1
    ELSE 0 - 1

\* log.sort((a, b) => b.timestamp - a.timestamp).find(l => l.name == last_run):
\* the position in the log of the entry found, 0 when there is none. The sort
\* is stable, so of the entries with the same timestamp the one appended
\* first comes first.
lastLogEntry(log, last_run) ==
    LET named == {i \in 1..Len(log) : log[i].name = last_run}
    IN  IF named = {} THEN 0
        ELSE CHOOSE i \in named :
                \A j \in named :
                    \/ log[j].timestamp < log[i].timestamp
                    \/ log[j].timestamp = log[i].timestamp /\ j >= i

\* execute, lines 94-147: the migrations left to execute in this direction,
\* or the error it throws.
remaining(list, state, direction) ==
    LET ordered == IF direction = "down" THEN Reverse(list) ELSE list
        index   == findIndex(ordered, state.last_run)
        entry   == lastLogEntry(state.log, state.last_run)
        from    == IF state.log[entry].direction = direction THEN index + 1 ELSE index
    IN  IF state.defined
        THEN IF index = 0 - 1 \/ entry = 0
             THEN [error |-> TRUE, queue |-> << >>]
             ELSE [error |-> FALSE, queue |-> SubSeq(ordered, from + 1, Len(ordered))]
        ELSE IF direction = "down"
             THEN [error |-> FALSE, queue |-> << >>]
             ELSE [error |-> FALSE, queue |-> ordered]

\* The agent is given its list of migrations.
LoadMigrations(n) ==
    /\ UNCHANGED migRest
    /\ mpc = "new"
    /\ migrations' = SubSeq(MigrationNames, 1, n)
    /\ mpc' = "idle"
    /\ UNCHANGED << mstore, applied, clock, mrun >>

\* run({direction, count}) up to the first migration: the lock is taken, the
\* state loaded, the log copied by writeLogsToStore and the list sliced by
\* execute. A count of 0 is a count that was not given.
Run(direction, count) ==
    /\ UNCHANGED migRest
    /\ mpc = "idle"
    /\ Len(mstore.log) < MaxLog
    /\ LET todo == remaining(migrations, mstore, direction) IN
        mrun' = [direction |-> direction, count |-> count, queue |-> todo.queue,
                 i |-> 0, log |-> mstore.log, error |-> todo.error]
    /\ mpc' = "running"
    /\ UNCHANGED << migrations, mstore, applied, clock >>

\* execute: whether the loop over the migrations goes on (lines 151-154).
executesNext ==
    /\ ~mrun.error
    /\ mrun.queue # << >>
    /\ ~(mrun.count # 0 /\ mrun.count = mrun.i)

\* One turn of the loops of execute and writeLogsToStore: the migration runs,
\* its log entry is yielded and pushed, and the store is saved.
ExecuteMigration ==
    /\ UNCHANGED migRest
    /\ mpc = "running"
    /\ executesNext
    /\ Len(mrun.log) < MaxLog
    /\ LET migration == Head(mrun.queue)
           entry == [name |-> migration, direction |-> mrun.direction, timestamp |-> clock]
           log   == Append(mrun.log, entry)
       IN  /\ applied' = IF mrun.direction = "up" THEN applied \cup {migration}
                         ELSE applied \ {migration}
           /\ mstore' = [defined |-> TRUE, last_run |-> migration, log |-> log]
           /\ mrun' = [mrun EXCEPT !.queue = Tail(@), !.i = @ + 1, !.log = log]
    /\ UNCHANGED << migrations, clock, mpc >>

\* A migration throws: process.exit(1).
MigrationFails ==
    /\ UNCHANGED migRest
    /\ mpc = "running"
    /\ executesNext
    /\ mpc' = "exited"
    /\ UNCHANGED << migrations, mstore, applied, clock, mrun >>

\* The run is over: the lock is released.
RunReturn ==
    /\ UNCHANGED migRest
    /\ mpc = "running"
    /\ ~executesNext
    /\ mpc' = "idle"
    /\ mrun' = NoRun
    /\ UNCHANGED << migrations, mstore, applied, clock >>

\* A millisecond passes.
ClockTick ==
    /\ UNCHANGED migRest
    /\ clock < MaxClock
    /\ clock' = clock + 1
    /\ UNCHANGED << migrations, mstore, applied, mpc, mrun >>

InitMigrations ==
    /\ SyncStart
    /\ hasDynamic = FALSE
    /\ maxBuckets = MaxBucketsPerConnection
    /\ storeCurrentData = TRUE
    /\ BatchStart
    /\ bucket_data = << >>

NextMigrations ==
    \/ \E n \in 0..MaxMigrations : LoadMigrations(n)
    \/ \E direction \in Directions, count \in 0..MaxMigrations : Run(direction, count)
    \/ ExecuteMigration
    \/ MigrationFails
    \/ RunReturn
    \/ ClockTick

SpecMigrations == InitMigrations /\ [][NextMigrations]_vars

(***************************************************************************)
(* ChangeStreamReplicationJob: replicate, its retry loop and one attempt.   *)
(***************************************************************************)
\* What ends the try block of replicateOnce: it returns (the job was stopped
\* while it waited for the rate limiter, or stream.replicate() returned), or it
\* throws a ChangeStreamInvalidatedError or any other error.
Outcomes == {"returned", "invalidated", "other"}

\* AbstractReplicationJob.isStopped: the signal of the abort controller.
isStopped == jaborted

\* replicateOnce that passes no error on.
rethrows_Never(e) == FALSE

\* replicateOnce, catch: whether it throws the error again (lines 82-91).
rethrows(e) == ~jaborted /\ e = "invalidated"

\* replicate() is called.
Replicate ==
    /\ UNCHANGED jobRest
    /\ jpc = "idle"
    /\ jpc' = "loop"
    /\ UNCHANGED << jaborted, jthrown, jlog, restartCalls >>

\* replicateLoop: while (!this.isStopped) starts the next replicateOnce, or
\* the loop ends, replicate() runs its finally block and returns.
LoopTest ==
    /\ UNCHANGED jobRest
    /\ jpc = "loop"
    /\ IF ~isStopped
         THEN /\ Len(jlog) < MaxReplicationAttempts
              /\ jpc' = "attempt"
              /\ UNCHANGED jaborted
         ELSE /\ jpc' = "returned"
              /\ jaborted' = TRUE
    /\ UNCHANGED << jthrown, jlog, restartCalls >>

\* replicateOnce: the try block ends and the catch block handles its error.
AttemptEnds(how) ==
    /\ UNCHANGED jobRest
    /\ jpc = "attempt"
    /\ jlog' = Append(jlog, how)
    /\ jthrown' = IF rethrows(how) THEN how ELSE "none"
    /\ jpc' = "end"
    /\ UNCHANGED << jaborted, restartCalls >>

\* replicateOnce: connectionManager.end() of the finally block is done. An
\* error being thrown reaches the catch block of replicate(), which calls
\* restartReplication for a ChangeStreamInvalidatedError; otherwise
\* replicateLoop goes on, with the delay if the job is not stopped.
ConnectionsEnded ==
    /\ UNCHANGED jobRest
    /\ jpc = "end"
    /\ IF jthrown = "invalidated"
         THEN /\ jpc' = "restart"
              /\ restartCalls' = restartCalls + 1
         ELSE /\ jpc' = IF ~isStopped THEN "delay" ELSE "loop"
              /\ UNCHANGED restartCalls
    /\ jthrown' = "none"
    /\ UNCHANGED << jaborted, jlog >>

\* The 5000 ms timer of replicateLoop fires.
DelayOver ==
    /\ UNCHANGED jobRest
    /\ jpc = "delay"
    /\ jpc' = "loop"
    /\ UNCHANGED << jaborted, jthrown, jlog, restartCalls >>

\* restartReplication settles: the finally block of replicate() aborts the
\* controller.
ReplicateFinally ==
    /\ UNCHANGED jobRest
    /\ jpc = "restart"
    /\ jaborted' = TRUE
    /\ jpc' = "returned"
    /\ UNCHANGED << jthrown, jlog, restartCalls >>

\* stop() of the job: the abort controller is aborted.
JobStop ==
    /\ UNCHANGED jobRest
    /\ ~jaborted
    /\ jpc # "returned"
    /\ jaborted' = TRUE
    /\ UNCHANGED << jpc, jthrown, jlog, restartCalls >>

InitJob ==
    /\ SyncStart
    /\ hasDynamic = FALSE
    /\ maxBuckets = MaxBucketsPerConnection
    /\ storeCurrentData = TRUE
    /\ BatchStart
    /\ bucket_data = << >>

NextJob ==
    \/ Replicate
    \/ LoopTest
    \/ \E how \in Outcomes : AttemptEnds(how)
    \/ ConnectionsEnded
    \/ DelayOver
    \/ ReplicateFinally
    \/ JobStop

SpecJob == InitJob /\ [][NextJob]_vars

(***************************************************************************)
(* Properties of the sync stream.                                          *)
(***************************************************************************)
IsData(f) == f.t = "data"
IsCompletion(f) == f.t \in {"checkpoint_complete", "partial_checkpoint_complete"}

\* op_ids of bucket b at or below checkpoint cp.
OpsUpTo(b, cp) == {i \in 1..Min(cp, Len(opLog)) : opLog[i] = b}

\* C1: within one checkpoint line the data frames are grouped by priority in
\* ascending numeric order: every data frame of a bucket of priority p comes
\* before any data frame of a bucket of priority q > p (priority 0 first).
C1_PriorityAscending ==
    \A i, j \in DOMAIN lineFrames :
        (i < j /\ IsData(lineFrames[i]) /\ IsData(lineFrames[j]))
            => lineFrames[i].priority <= lineFrames[j].priority

\* C2: when a batch has just ended with a (partial_)checkpoint_complete line
\* for checkpoint C, the client holds every op up to C of every bucket that
\* was requested for that priority class.
C2_CompleteAfterAllData ==
    ( /\ pc = "loopHead" /\ isDone
      /\ IsCompletion(lastFrame)
      /\ lastFrame.cp = cur.cp
      /\ lastFrame.t = "partial_checkpoint_complete" => lastFrame.priority = groups[gi] )
    => \A b \in GroupBuckets(groups[gi]) : OpsUpTo(b, cur.cp) \subseteq clientData[b]

\* C3: once a new checkpoint arrived during the data loop (the race resolved
\* and aborted the batch), bucketDataInBatches returns at its next loop test
\* instead of starting another bucketDataBatch.
C3_LoopReturnsOnNewCheckpoint ==
    [][ (pc = "loopHead" /\ abortCtl /\ ~connAborted /\ pc' # pc /\ ~connAborted')
            => pc' = "group" ]_vars

\* The op_ids of the data frame emitted by this step are ascending and above
\* every op_id of `seen`.
FrameAbove(seen) ==
    (pc = "chunk" /\ pc' = "sent")
        => /\ \A k \in DOMAIN curChunk'.data :
                \A x \in seen[curChunk'.bucket] : x < curChunk'.data[k]
           /\ \A k, l \in DOMAIN curChunk'.data :
                k < l => curChunk'.data[k] < curChunk'.data[l]

\* C4 as stated: over the whole life of the stream the op_ids of a bucket in
\* the emitted data frames strictly increase, so no op is sent twice.
C4_OpIdsIncreaseForever == [][FrameAbove(sentOps)]_vars

\* C4 as amended: the op_ids of a bucket strictly increase for as long as the
\* bucket stays in the bucket list of the connection; a bucket that a
\* checkpoint line removed and a later line adds back is sent again from 0.
C4_OpIdsIncreaseWhileListed == [][FrameAbove(clientData)]_vars

\* A bucket that was removed and added back gets a further data frame after
\* the data it was sent again.
C4_Witness ==
    /\ pc = "sent"
    /\ \E x \in clientData[curChunk.bucket] : x < curChunk.data[1]
    /\ curChunk.bucket \in DynamicCandidates
    /\ Len(OpsOf(ParamOp, 0, cur.cp)) >= 2

\* The bucket list of the connection at a checkpoint, with the checksums of
\* storage and the priorities of the sync rules.
Authoritative(cp) ==
    LET list == IF hasDynamic THEN staticBuckets \cup getParameterSets(cp)
                ELSE staticBuckets
    IN  WithPriority(getChecksums(cp, list), list)

\* C5: after every emitted checkpoint or checkpoint_diff line, the lines
\* applied in order to an empty map give exactly the checksum, count and
\* priority of every bucket of the connection at that line's checkpoint.
C5_LinesGiveChecksums ==
    lastFrame # NoFrame => clientMap = Authoritative(cur.cp)

\* A checkpoint_diff built from an update that lists the changed buckets,
\* applied on top of entries of earlier lines.
C5_Witness ==
    /\ lastFrame.t = "checkpoint_diff"
    /\ ~cur.invalidateDataBuckets
    /\ cur.updatedDataBuckets # {}
    /\ \E b \in DOMAIN clientMap : b \notin cur.updatedDataBuckets /\ clientMap[b].count > 0

\* C6: when the loop iteration of a checkpoint line for C ends without having
\* been preempted, invalidated or cut by an abort, exactly one
\* checkpoint_complete for C was emitted since the line; also when the line
\* had no buckets to fetch.
C6_ExactlyOneComplete ==
    ( /\ pc = "iterEnd" /\ ~abortCtl /\ ~connAborted
      /\ \A i \in DOMAIN lineFrames : lineFrames[i].t # "null" )
    => Cardinality({i \in DOMAIN lineFrames :
                        /\ lineFrames[i].t = "checkpoint_complete"
                        /\ lineFrames[i].cp = cur.cp}) = 1

(***************************************************************************)
(* Properties of MongoBucketBatch.                                         *)
(***************************************************************************)
\* C7: the op_ids of the committed bucket ops strictly increase in commit
\* order (so none repeats), the sequence document is never behind them, and
\* at most one replication transaction at a time is between reading the
\* op_id sequence and writing it back, retried transactions included.
C7_OpIdsIncreaseInCommitOrder ==
    /\ \A i, j \in DOMAIN bucketOps : i < j => bucketOps[i] < bucketOps[j]
    /\ \A i \in DOMAIN bucketOps : bucketOps[i] <= opIdSequence
    /\ Cardinality({b \in Batches : bpc[b] = "txn"}) <= 1

\* A retried transaction of one batch, after ops were committed, while the
\* other batch waits with operations to flush.
C7_Witness ==
    \E b, o \in Batches :
        /\ b # o
        /\ bpc[b] = "txn" /\ txn[b].flushTry > 1
        /\ bpc[o] = "flush" /\ batch[o] # None
        /\ Len(bucketOps) >= 1

\* The step in which commit(lsn) of batch b returns, its flush done.
CommitReturns(b) ==
    bpc[b] = "flush" /\ call[b].name = "commit" /\ bpc'[b] = "idle"

\* The checkpoint fields of the sync_rules document of batch b are as before.
CheckpointKept(b) ==
    /\ syncRulesDoc'[b].last_checkpoint_lsn = syncRulesDoc[b].last_checkpoint_lsn
    /\ syncRulesDoc'[b].last_checkpoint = syncRulesDoc[b].last_checkpoint

NotActivated(b) ==
    /\ syncRulesDoc'[b].state = syncRulesDoc[b].state
    /\ needsActivation'[b] = needsActivation[b]

\* lsn is above last_checkpoint_lsn (or there is no checkpoint LSN yet).
PastLastCheckpoint(b, lsn) ==
    syncRulesDoc[b].last_checkpoint_lsn = None \/ lsn > syncRulesDoc[b].last_checkpoint_lsn

\* C8: commit(lsn) with lsn <= last_checkpoint_lsn returns false and leaves
\* last_checkpoint_lsn, last_checkpoint, snapshot_done and the state of the
\* sync rules unchanged.
C8_SkipAtOrBelowLastCheckpoint ==
    [][ \A b \in Batches :
          (CommitReturns(b) /\ ~PastLastCheckpoint(b, call[b].lsn))
            => /\ result'[b] = "false"
               /\ CheckpointKept(b)
               /\ syncRulesDoc'[b].snapshot_done = syncRulesDoc[b].snapshot_done
               /\ syncRulesDoc'[b].state = syncRulesDoc[b].state ]_vars

\* What C9 says of a commit that returns.
KeepaliveOpPersisted(b) ==
    /\ syncRulesDoc'[b].keepalive_op = persisted_op[b]
    /\ CheckpointKept(b)
    /\ NotActivated(b)
    /\ result'[b] = "false"

\* C9 as stated: commit(lsn) with lsn < no_checkpoint_before_lsn persists
\* keepalive_op = the last persisted op, changes neither last_checkpoint nor
\* last_checkpoint_lsn, does not activate the sync rules and returns false.
C9_KeepaliveOpBeforeNoCheckpoint ==
    [][ \A b \in Batches :
          (CommitReturns(b) /\ call[b].lsn < syncRulesDoc[b].no_checkpoint_before)
            => KeepaliveOpPersisted(b) ]_vars

\* C9 as amended: the same, unless lsn < last_checkpoint_lsn (a re-applied
\* transaction, which is skipped before keepalive_op is touched).
C9_KeepaliveOpUnlessReapplied ==
    [][ \A b \in Batches :
          ( /\ CommitReturns(b)
            /\ call[b].lsn < syncRulesDoc[b].no_checkpoint_before
            /\ ~( /\ syncRulesDoc[b].last_checkpoint_lsn # None
                  /\ call[b].lsn < syncRulesDoc[b].last_checkpoint_lsn) )
            => KeepaliveOpPersisted(b) ]_vars

\* A commit below no_checkpoint_before_lsn has just returned false with the
\* persisted op written to keepalive_op.
C9_Witness ==
    \E b \in Batches :
        /\ bpc[b] = "idle" /\ result[b] = "false" /\ notified[b]
        /\ syncRulesDoc[b].keepalive_op # None
        /\ syncRulesDoc[b].keepalive_op = persisted_op[b]

\* What C10 says of a commit that returns.
CheckpointCreated(b) ==
    /\ result'[b] = "true"
    /\ syncRulesDoc'[b].last_checkpoint_lsn = call[b].lsn
    /\ syncRulesDoc'[b].last_checkpoint =
          IF persisted_op[b] # None THEN persisted_op[b]
          ELSE syncRulesDoc[b].last_checkpoint
    /\ syncRulesDoc'[b].snapshot_done
    /\ syncRulesDoc'[b].keepalive_op = None
    /\ syncRulesDoc[b].state = "PROCESSING" => syncRulesDoc'[b].state = "ACTIVE"
    /\ notified'[b]

\* C10 as stated: commit(lsn) with lsn >= no_checkpoint_before_lsn and
\* lsn > last_checkpoint_lsn returns true with last_checkpoint_lsn = lsn,
\* last_checkpoint = the last op flushed since the previous checkpoint (as it
\* was when there is none), snapshot_done set, keepalive_op cleared, the sync
\* rules activated if they were PROCESSING and the watchers notified.
C10_CommitCreatesCheckpoint ==
    [][ \A b \in Batches :
          ( /\ CommitReturns(b)
            /\ call[b].lsn >= syncRulesDoc[b].no_checkpoint_before
            /\ PastLastCheckpoint(b, call[b].lsn) )
            => CheckpointCreated(b) ]_vars

\* C10 as amended: the same for a commit that creates empty checkpoints (the
\* default) or has an op persisted since the previous checkpoint; with
\* createEmptyCheckpoints = false and nothing persisted, commit returns true
\* and only activates the sync rules.
C10_CommitCreatesCheckpointUnlessEmpty ==
    [][ \A b \in Batches :
          ( /\ CommitReturns(b)
            /\ call[b].lsn >= syncRulesDoc[b].no_checkpoint_before
            /\ PastLastCheckpoint(b, call[b].lsn)
            /\ call[b].createEmptyCheckpoints \/ persisted_op[b] # None )
            => CheckpointCreated(b) ]_vars

\* A commit has just created a checkpoint at a flushed op and activated the
\* sync rules, stopping the ones that were active.
C10_Witness ==
    \E b, o \in Batches :
        /\ bpc[b] = "idle" /\ result[b] = "true" /\ notified[b]
        /\ persisted_op[b] = None
        /\ syncRulesDoc[b].last_checkpoint # None /\ syncRulesDoc[b].last_checkpoint > 0
        /\ syncRulesDoc[b].last_checkpoint_lsn = last_checkpoint_lsn[b]
        /\ syncRulesDoc[b].state = "ACTIVE" /\ syncRulesDoc[o].state = "STOP"

\* keepalive(lsn) hands its work to commit(lsn): nothing is changed before
\* commit runs with the default options.
EntersCommit(b, lsn) ==
    /\ bpc'[b] = "flush"
    /\ call'[b] = [name |-> "commit", lsn |-> lsn,
                   createEmptyCheckpoints |-> TRUE, keepalive |-> TRUE]
    /\ UNCHANGED << dbVars, fieldVars >>

\* commit(lsn) would have nothing to flush and would return false with
\* nothing changed, and so did keepalive(lsn).
SameAsSkippedCommit(b, lsn) ==
    /\ batch[b] = None
    /\ commitBranch(b, lsn, TRUE) = "skip"
    /\ bpc'[b] = "idle" /\ result'[b] = "false"
    /\ UNCHANGED << dbVars, fieldVars >>

\* keepalive(lsn) moves last_checkpoint_lsn to lsn and leaves the checkpoint
\* and the bucket ops alone.
OnlyAdvancesLsn(b, lsn) ==
    /\ syncRulesDoc'[b].last_checkpoint_lsn = lsn
    /\ syncRulesDoc'[b].last_checkpoint = syncRulesDoc[b].last_checkpoint
    /\ syncRulesDoc'[b].keepalive_op = syncRulesDoc[b].keepalive_op
    /\ UNCHANGED << opIdSequence, bucketOps, persisted_op >>

KeepaliveContract(b, lsn) ==
    IF persisted_op[b] # None
    THEN EntersCommit(b, lsn) \/ SameAsSkippedCommit(b, lsn)
    ELSE OnlyAdvancesLsn(b, lsn)

\* C11 as stated: keepalive(lsn) with a pending persisted_op behaves exactly
\* as commit(lsn); without one it only advances last_checkpoint_lsn to lsn
\* and leaves last_checkpoint unchanged.
C11_KeepaliveAsCommit ==
    [][ \A b \in Batches, lsn \in Lsns :
          KeepaliveAt(b, lsn) => KeepaliveContract(b, lsn) ]_vars

\* C11 as amended: the same for a keepalive(lsn) with lsn above
\* last_checkpoint_lsn and not below no_checkpoint_before_lsn; any other
\* keepalive returns false at once.
C11_KeepalivePastGatesAsCommit ==
    [][ \A b \in Batches, lsn \in Lsns :
          ( /\ KeepaliveAt(b, lsn)
            /\ PastLastCheckpoint(b, lsn)
            /\ lsn >= syncRulesDoc[b].no_checkpoint_before )
            => KeepaliveContract(b, lsn) ]_vars

\* keepalive has entered commit with the op that an earlier commit, below
\* no_checkpoint_before_lsn, flushed and left in keepalive_op.
C11_Witness ==
    \E b \in Batches :
        /\ bpc[b] = "flush" /\ call[b].keepalive
        /\ persisted_op[b] # None
        /\ syncRulesDoc[b].keepalive_op = persisted_op[b]
        /\ syncRulesDoc[b].no_checkpoint_before > 0
        /\ call[b].lsn >= syncRulesDoc[b].no_checkpoint_before

\* C12: when the commit of a re-delivered transaction (its records and LSN
\* were committed before, so the LSN is not past last_checkpoint_lsn) has
\* returned, no bucket op was appended since the re-delivery started and the
\* checkpoint is where it was.
C12_RedeliveryAddsNothing ==
    (Committed /\ delivery.again /\ delivery.lsn <= last_checkpoint_lsn[Replayer])
        => /\ Len(bucketOps) = delivery.startOps
           /\ syncRulesDoc[Replayer].last_checkpoint = delivery.startCp

\* C13: a try of a replication transaction goes on to its operations only
\* if it is one of the first 20 tries or starts within 90 s of the start of
\* the call; a try past both limits fails with 'Max transaction tries
\* exceeded', and the failed call tries no further.
C13_RetriesBounded ==
    /\ rpc = "body" => (flushTry <= MaxTries \/ attemptAt <= LastTryAfter)
    /\ (rpc \in {"body", "callback", "done"}) => thrown = "none"
    /\ rpc = "failed" => thrown = PSYNC_S1402
    /\ (flushTry > MaxTries /\ attemptAt > LastTryAfter) => rpc = "failed"

\* A transaction has failed on its 21st try or later, more than 90 s after
\* its start.
C13_Witness ==
    /\ rpc = "failed" /\ thrown = PSYNC_S1402
    /\ flushTry > MaxTries /\ attemptAt > LastTryAfter

(***************************************************************************)
(* Properties of the Demultiplexer.                                        *)
(***************************************************************************)
\* A subscriber that is subscribed to a source that has neither ended nor
\* been aborted.
Attached(s) ==
    /\ spc[s] \in {"first", "live"}
    /\ sink[s].closed = "open"
    /\ upstream[ssource[s]] = "running"
    /\ ~aborted[ssource[s]]

FactoryInvoked == started' # started

\* C14: the factory is not invoked before the first subscriber; it is invoked
\* only by a subscribe that finds no subscriber attached to a live source, and
\* once by it; and all the subscribers attached to a live source are attached
\* to the same one, the current source.
C14_OneSharedUpstream ==
    /\ []((\A s \in Subs : spc[s] = "idle") => started = 0)
    /\ [](\A s \in Subs : Attached(s) => ssource[s] = currentSource)
    /\ [][FactoryInvoked =>
            /\ started' = started + 1
            /\ \A s \in Subs : ~Attached(s)
            /\ \E s \in Subs : spc[s] = "idle" /\ spc'[s] = "first"]_vars

\* Two subscribers with different keys share the one source that was started,
\* and one of them has received a value of it.
C14_Witness ==
    /\ started = 1
    /\ \E s, t \in Subs :
          /\ skey[s] # skey[t]
          /\ Attached(s) /\ Attached(t)
          /\ ssource[s] = 1 /\ ssource[t] = 1
          /\ Len(received[s]) > 1

\* get active(): this.subscribers != null.
active == subscribers # NULL

\* The iteration of subscriber s finishes in this step: it is cancelled, or it
\* has seen the end or the error of its sink.
Leaves(s) ==
    /\ spc[s] \in {"first", "live"}
    /\ spc'[s] \in {"cancelled", "ended", "failed"}

LastRegistered(s) ==
    /\ Registered(s)
    /\ AllSinks(sinkMaps[subscribers]) = {s}

\* C15: a subscriber that finishes removes its own sink and no other; the
\* signal of the source is aborted in that step iff the subscriber was the
\* last one registered, and then the demultiplexer is not active; the other
\* subscribers stay registered, with their sinks as they were.
C15_LeavingRemovesOwnSink ==
    [][\A s \in Subs : Leaves(s) =>
        /\ ~Registered(s)'
        /\ \A g \in Sources, k \in Keys :
              /\ sinkMaps'[g][k] \subseteq sinkMaps[g][k]
              /\ sinkMaps[g][k] \ sinkMaps'[g][k] \subseteq {s}
        /\ \A t \in Subs \ {s} :
              /\ sink'[t] = sink[t] /\ spc'[t] = spc[t]
              /\ Registered(t) => Registered(t)'
        /\ IF LastRegistered(s)
             THEN /\ aborted'[abortController] /\ ~aborted[abortController]
                  /\ ~active'
             ELSE /\ aborted' = aborted
                  /\ active' = active]_vars

\* One of two registered subscribers has left, the other is still registered
\* to the source, which is not aborted, and has received a value after that.
C15_Witness ==
    \E s, t \in Subs :
        /\ spc[s] = "cancelled" /\ spc[t] = "live"
        /\ ssource[s] = ssource[t]
        /\ Registered(t) /\ ~aborted[ssource[t]]
        /\ Len(received[s]) > 1
        /\ Len(received[t]) > Len(received[s])

\* What subscriber s has received is the first value of its key, followed by
\* values of the source.
FirstValueFirst(s) ==
    received[s] # << >> =>
        /\ received[s][1] = FirstValueOf
        /\ \A i \in 2..Len(received[s]) : received[s][i] # FirstValueOf

\* The latest value the source has given for the key of subscriber s since s
\* subscribed, if s has not received it, is the value in the sink of s.
LatestInSink(s) ==
    (spc[s] \in {"first", "live"} /\ missed[s].value # NULL) =>
        sink[s].value = missed[s].value

\* Subscriber s receives a value in this step.
Receives(s) == received'[s] # received[s]

\* C16: a subscriber receives the first value of its key before any value of
\* the source; a value that the source gives for the key while getFirstValue
\* is pending is kept in the sink, the latest one if there are several, and
\* it is the value the subscriber receives next after the first value.
C16_FirstValueThenLatest ==
    /\ [](\A s \in Subs : FirstValueFirst(s) /\ LatestInSink(s))
    /\ [][\A s \in Subs : Receives(s) =>
            IF spc[s] = "first"
            THEN received[s] = << >> /\ received'[s] = << FirstValueOf >>
            ELSE /\ missed[s].value # NULL
                 /\ received'[s] = Append(received[s], missed[s].value)]_vars

\* A subscriber has received the first value and then the second of two
\* values that the source gave for its key while getFirstValue was pending.
C16_Witness ==
    \E s \in Subs :
        /\ spc[s] = "live"
        /\ received[s] = << FirstValueOf, MaxValues >>
        /\ missed[s].early /\ missed[s].value = NULL

\* The iterator of source g throws, or ends, in this step.
Throws(g) == upstream[g] = "running" /\ upstream'[g] = "errored"
Ends(g) == upstream[g] = "running" /\ upstream'[g] = "ended"

\* Every sink registered with source g is closed with this outcome, and g is
\* no longer the current source.
ClosesAll(g, closed) ==
    /\ \A s \in AllSinks(sinkMaps[g]) : sink'[s].closed = closed
    /\ currentSource' # g /\ subscribers' # g /\ abortController' # g
    /\ subscribers = g => ~active'

\* C17: when the source throws, the sink of every registered subscriber gets
\* the error, and an iteration fails only with the error of its own source;
\* when the source ends, every sink is ended, and an iteration completes only
\* when its own source has ended; in both cases the state is cleared, so that
\* a subscriber with an open sink is always on a source that is running.
C17_ErrorAndEndReachAll ==
    /\ [][\A g \in Sources :
            /\ Throws(g) => ClosesAll(g, "error")
            /\ Ends(g) => ClosesAll(g, "end")]_vars
    /\ [](\A s \in Subs :
            /\ spc[s] = "failed" => upstream[ssource[s]] = "errored"
            /\ spc[s] = "ended" => upstream[ssource[s]] = "ended"
            /\ (spc[s] \in {"first", "live"} /\ sink[s].closed = "open") =>
                  upstream[ssource[s]] = "running")

\* The iteration of one subscriber has failed with the error of the first
\* source, and a later subscriber got a second source, received a value of
\* it, and completed when it ended.
C17_Witness ==
    \E s, t \in Subs :
        /\ spc[s] = "failed" /\ ssource[s] = 1 /\ upstream[1] = "errored"
        /\ spc[t] = "ended" /\ ssource[t] = 2 /\ upstream[2] = "ended"
        /\ Len(received[t]) > 1

(***************************************************************************)
(* Properties of the ChecksumCache.                                        *)
(***************************************************************************)
\* The requests in flight for the bucket up to the checkpoint, by caller.
InFlightFor(bucket, checkpoint) ==
    {<< c, r >> \in Callers \X UNION {inflight[c] : c \in Callers} :
        r \in inflight[c] /\ r.bucket = bucket /\ r.end = checkpoint}

\* Caller c calls getChecksums in this step.
Calls(c) == calls[c].pc = "idle" /\ calls'[c].pc = "waiting"

\* C18: no two fetches are in flight for one bucket up to one checkpoint; an
\* entry that is in flight has exactly one fetch, and every call that waits
\* for the bucket at that checkpoint waits for that entry; a call fetches
\* exactly those of its buckets that have no entry, complete or in flight.
C18_OneFetchPerRange ==
    /\ [](\A b \in CacheBuckets, e \in Checkpoints :
            /\ Cardinality(InFlightFor(b, e)) <= 1
            /\ cache[b][e].state = "pending" <=> InFlightFor(b, e) # {})
    /\ [](\A c \in Callers : calls[c].pc = "waiting" =>
            \A b \in calls[c].buckets : cache[b][calls[c].checkpoint].state # "none")
    /\ [][\A c \in Callers : Calls(c) =>
            {r.bucket : r \in inflight'[c]} =
                {b \in calls'[c].buckets : cache[b][calls'[c].checkpoint].state = "none"}]_vars

\* Two calls for the same checkpoint are waiting: the first fetches bucket
\* test, the second asked for test and test2 and fetches test2 only.
C18_Witness ==
    \E c, d \in Callers, e \in Requested :
        /\ calls[c] = [pc |-> "waiting", checkpoint |-> e, buckets |-> {"test"}]
        /\ calls[d] = [pc |-> "waiting", checkpoint |-> e, buckets |-> {"test", "test2"}]
        /\ {r.bucket : r \in inflight[c]} = {"test"}
        /\ {r.bucket : r \in inflight[d]} = {"test2"}

\* Bucket b has a complete entry for a checkpoint before this one.
HasPrefix(b, checkpoint) ==
    \E a \in 1..(checkpoint - 1) : cache[b][a].state = "done"

\* What the call of c fetches in this step is the lookup of b after a complete
\* entry up to the checkpoint if there is such an entry, and the full fetch
\* of b up to the checkpoint if there is none.
PartialIffPrefix(c, b) ==
    LET checkpoint == calls'[c].checkpoint IN
    IF HasPrefix(b, checkpoint)
    THEN \E a \in 1..(checkpoint - 1) :
            /\ cache[b][a].state = "done"
            /\ inflight'[c] = {[bucket |-> b, start |-> a, end |-> checkpoint]}
    ELSE inflight'[c] = {[bucket |-> b, start |-> 0, end |-> checkpoint]}

\* C19 as stated: every call for one bucket issues the partial lookup when
\* the bucket has a complete entry for an earlier checkpoint, and the full
\* fetch in every other case.
C19_PartialIffCompletedPrefix ==
    [][\A c \in Callers, b \in CacheBuckets :
        (Calls(c) /\ calls'[c].buckets = {b}) => PartialIffPrefix(c, b)]_vars

\* C19, for the calls that fetch: a call for one bucket that has no entry,
\* complete or in flight, for the checkpoint of the call issues the partial
\* lookup when the bucket has a complete entry for an earlier checkpoint, and
\* the full fetch in every other case.
C19_PartialIffCompletedPrefixWhenFetching ==
    [][\A c \in Callers, b \in CacheBuckets :
        (/\ Calls(c)
         /\ calls'[c].buckets = {b}
         /\ cache[b][calls'[c].checkpoint].state = "none") => PartialIffPrefix(c, b)]_vars

\* A call for one bucket has a partial lookup in flight, and a second call for
\* the same bucket and checkpoint waits for it with no fetch of its own.
C19_Witness ==
    \E c, d \in Callers, b \in CacheBuckets :
        /\ calls[c].pc = "waiting" /\ calls[c].buckets = {b}
        /\ \E r \in inflight[c] : r.start > 0 /\ r.end = calls[c].checkpoint
        /\ calls[d].pc = "waiting" /\ calls[d].buckets = {b}
        /\ calls[d].checkpoint = calls[c].checkpoint
        /\ inflight[d] = {}

\* checksum(a, c) of the bucket: what the query gives for (a, c], and the
\* checksum of no ops when it has no row.
RangeChecksum(b, a, c) ==
    addPartialChecksums(ZeroChecksum,
        getChecksumsInternal([bucket |-> b, start |-> a, end |-> c]))

HasClear(b, a, c) == \E i \in RowsOf(b, a, c) : bucket_data[i].op = "CLEAR"

\* checksum(a, c) = checksum(a, m) + checksum(m, c) in int32, and the counts add.
Additive(b, a, m, c) ==
    /\ RangeChecksum(b, a, c).checksum =
          Add32(RangeChecksum(b, a, m).checksum, RangeChecksum(b, m, c).checksum)
    /\ RangeChecksum(b, a, c).count =
          RangeChecksum(b, a, m).count + RangeChecksum(b, m, c).count

\* The checksum and count of a complete entry.
EntryChecksum(b, e) ==
    [checksum |-> cache[b][e].checksum, count |-> cache[b][e].count]

\* C20: without a CLEAR in (a, c] the checksums of (a, m] and (m, c] add up
\* to the checksum of (a, c] in 32-bit two's complement, and the counts add;
\* a complete entry of a bucket without a CLEAR up to its checkpoint is the
\* full checksum from 0, however it was composed; and an entry made by a
\* partial lookup that has a CLEAR is the checksum of that lookup alone.
C20_ChecksumsCompose ==
    /\ \A b \in CacheBuckets, a \in 0..MaxCacheOp, m \in 0..MaxCacheOp, c \in 0..MaxCacheOp :
          (a < m /\ m < c /\ c <= Len(bucket_data) /\ ~HasClear(b, a, c)) =>
              Additive(b, a, m, c)
    /\ \A b \in CacheBuckets, e \in Checkpoints :
          cache[b][e].state = "done" =>
              /\ ~HasClear(b, 0, e) => EntryChecksum(b, e) = RangeChecksum(b, 0, e)
              /\ HasClear(b, cache[b][e].start, e) =>
                    EntryChecksum(b, e) = RangeChecksum(b, cache[b][e].start, e)

\* Bucket test has no CLEAR; its entry for the last checkpoint was composed
\* from the complete entry before it and a partial lookup, the sum of the
\* checksums has wrapped, and it is the full checksum from 0.
C20_Witness ==
    LET a == MaxCacheOp - 1
        c == MaxCacheOp
    IN /\ cache["test"][a].state = "done"
       /\ cache["test"][c].state = "done"
       /\ cache["test"][c].start = a
       /\ ~HasClear("test", 0, c)
       /\ RowsOf("test", a, c) # {}
       /\ cache["test"][a].checksum > 0
       /\ RangeChecksum("test", a, c).checksum > 0
       /\ cache["test"][c].checksum < 0
       /\ EntryChecksum("test", c) = RangeChecksum("test", 0, c)

(***************************************************************************)
(* Properties of syncSemaphore.                                            *)
(***************************************************************************)
\* The connections whose bucketDataBatch holds a permit.
Holders == {k \in Connections : held[k] > 0}

\* bucketDataBatch of connection k ends in this step.
BatchEnds(k) == dpc[k] # "idle" /\ dpc'[k] = "idle"

\* C21: at most MAX_ACTIVE_CONNECTIONS executions hold a permit, each one
\* permit, and the free permits and the held ones add up to the permits of
\* the semaphore; an execution that is not in its try block holds none; an
\* execution that ends gives back the permit it held in that step, once, on
\* each way out, and one whose acquisition ended as 'aborted' held none.
C21_PermitsBoundedAndReleased ==
    /\ [](/\ Cardinality(Holders) <= MaxActiveConnections
          /\ semValue + Cardinality(Holders) = MaxActiveConnections
          /\ \A k \in Connections :
                /\ held[k] \in {0, 1}
                /\ held[k] = 1 <=> dpc[k] \in {"running", "yielded"})
    /\ [][\A k \in Connections : BatchEnds(k) =>
            /\ held'[k] = 0
            /\ semValue' = semValue + held[k]
            /\ outcome'[k] \in {"aborted", "timeout"} => held[k] = 0]_vars

\* Every permit is held, a connection waits for one, and an execution has
\* ended with a storage error and holds nothing.
C21_Witness ==
    /\ semValue = 0
    /\ Cardinality(Holders) = MaxActiveConnections
    /\ \E k \in Connections : dpc[k] = "waiting"
    /\ \E k \in Connections : outcome[k] = "error" /\ dpc[k] = "idle" /\ held[k] = 0

(***************************************************************************)
(* Properties of streamResponse.                                           *)
(***************************************************************************)
\* streamResponse has ended.
ResponseOver == spr \in {"returned", "threw"}

\* streamResponse yields a line in this step.
Emits == linesOut' # linesOut

\* C22: once the parent signal is aborted or the token stream has ended,
\* streamResponse ends; it throws only an error that is not an AbortError,
\* which streamResponseInner raised by itself; it yields no line once the
\* parent signal is aborted, the token stream has ended or it has ended
\* itself; and when it has ended its controller is aborted, and the streams
\* under it come to an end.
C22_AbortEndsWithoutError ==
    /\ (signalAborted \/ ki = "ended") ~> ResponseOver
    /\ [](spr = "threw" => failure = "Error")
    /\ [][Emits => (~signalAborted /\ ~controllerAborted /\ ki = "running"
                     /\ spr = "streaming")]_vars
    /\ [](ResponseOver => controllerAborted)
    /\ []((spr = "streaming" /\ signalAborted) => controllerAborted)
    /\ ResponseOver ~> (inner \notin {"running", "waiting"} /\ ki # "running")

\* The parent signal was aborted while the stream waited, after a data line:
\* streamResponse has returned on the AbortError, and the streams under it
\* are unwound.
C22_Witness ==
    /\ signalAborted /\ controllerAborted
    /\ spr = "returned" /\ failure = "AbortError"
    /\ "data" \in {linesOut[i] : i \in DOMAIN linesOut}
    /\ inner = "unwound" /\ ki = "unwound"

(***************************************************************************)
(* Properties of BucketChecksumState.                                      *)
(***************************************************************************)
\* A step in which buildNextCheckpointLine returned a line: only then are
\* the checksums or the write checkpoint sent last replaced.
LineReturned ==
    lastChecksums' # lastChecksums \/ lastWriteCheckpoint' # lastWriteCheckpoint

\* C23: the first line buildNextCheckpointLine returns is a checkpoint line
\* that lists every bucket of the client with its checksum, count and
\* priority, whether the update it is built from invalidates all buckets or
\* not; every line returned after it is a checkpoint_diff.
C23_FirstLineFullThenDiffs ==
    [][LineReturned =>
         IF lastChecksums.null
         THEN /\ lastFrame'.t = "checkpoint"
              /\ clientMap' = Authoritative(cur'.cp)
              /\ fetch' = DOMAIN clientMap'
         ELSE lastFrame'.t = "checkpoint_diff"]_vars

\* A later line built from an update that invalidates every bucket, as the
\* first one was: it is a checkpoint_diff all the same.
C23_Witness ==
    /\ lastFrame.t = "checkpoint_diff"
    /\ cur.invalidateDataBuckets
    /\ DOMAIN clientMap # {}

\* Nothing changed since the line sent last: the write checkpoint is the one
\* sent last, and against the checksums sent last no bucket of the client has
\* another checksum or count, none is new and none is gone.
NothingChanged ==
    LET now  == getChecksums(storageCp, DOMAIN Authoritative(storageCp))
        diff == checksumsDiff(lastChecksums.map, now)
    IN  /\ writeCp = lastWriteCheckpoint
        /\ diff.updatedBuckets = {}
        /\ diff.removedBuckets = {}

DiffReturned == LineReturned /\ ~lastChecksums.null

\* What a checkpoint_diff has to fetch: the buckets of the new checkpoint
\* whose checksum or count differs from the one sent last or that are new,
\* and the buckets still pending that the new checkpoint has.
FetchOfDiff ==
    LET now == getChecksums(cur'.cp, DOMAIN Authoritative(cur'.cp))
    IN  checksumsDiff(lastChecksums.map, now).updatedBuckets
            \cup (pendingBucketDownloads \cap DOMAIN now)

\* The buckets that leave pendingBucketDownloads in a step.
LeavePending == pendingBucketDownloads \ pendingBucketDownloads'

\* C25 as stated: for every checkpoint_diff, bucketsToFetch is the updated
\* buckets and the pending buckets that still exist, and
\* pendingBucketDownloads is reset to it; a bucket leaves
\* pendingBucketDownloads only when a chunk with hasMore = false is recorded
\* for it.
C25_PendingLeavesOnlyByChunk ==
    [][/\ DiffReturned => fetch' = FetchOfDiff /\ pendingBucketDownloads' = fetch'
       /\ \A b \in LeavePending : RecordChunk(b, FALSE)]_vars

\* C25, amended: a bucket leaves pendingBucketDownloads only when a chunk with
\* hasMore = false is recorded for it, or when a line is returned for a
\* checkpoint that no longer has the bucket.
C25_PendingLeavesByChunkOrRemoval ==
    [][/\ DiffReturned => fetch' = FetchOfDiff /\ pendingBucketDownloads' = fetch'
       /\ \A b \in LeavePending :
             \/ RecordChunk(b, FALSE)
             \/ DiffReturned /\ b \notin DOMAIN clientMap']_vars

\* A checkpoint_diff built from an update that lists the changed buckets
\* fetches a bucket that is not among them: one left pending by an earlier line.
C25_Witness ==
    /\ lastFrame.t = "checkpoint_diff"
    /\ ~cur.invalidateDataBuckets
    /\ pendingBucketDownloads = fetch
    /\ \E b \in fetch : b \notin cur.updatedDataBuckets

\* The buckets of the client at the checkpoint the storage has now.
BucketsOfClient == DOMAIN Authoritative(storageCp)

\* The buckets a line for that checkpoint has to fetch: all of them for the
\* first line, the updated and the still pending ones for a checkpoint_diff.
WouldFetch ==
    LET now == getChecksums(storageCp, BucketsOfClient)
    IN  IF lastChecksums.null THEN BucketsOfClient
        ELSE checksumsDiff(lastChecksums.map, now).updatedBuckets
                \cup (pendingBucketDownloads \cap BucketsOfClient)

OpsSince(from, op, bucket, key) ==
    {i \in (from + 1)..Len(bucket_ops) :
        bucket_ops[i] = [op |-> op, bucket |-> bucket, key |-> key]}

\* C27: when truncate returns, every row that had a current_data document
\* when truncateSingle started got exactly one REMOVE in each bucket the
\* document recorded and nothing else, no parameter row of it is left, and
\* current_data has no document of the table; whatever the number of rows,
\* below, at or above the rows one transaction deletes.
C27_TruncateRemovesEveryRow ==
    [][TruncateReturn =>
         /\ current_data = << >>
         /\ \A k \in DOMAIN truncating.rows :
               /\ \A b \in truncating.rows[k].buckets :
                     Cardinality(OpsSince(truncating.ops, "REMOVE", b, k)) = 1
               /\ \A p \in bucket_parameters : p[2] # k
         /\ \A i \in (truncating.ops + 1)..Len(bucket_ops) :
               /\ bucket_ops[i].op = "REMOVE"
               /\ bucket_ops[i].key \in DOMAIN truncating.rows
               /\ bucket_ops[i].bucket \in truncating.rows[bucket_ops[i].key].buckets]_vars

\* A truncate has returned for a table that had more rows than one
\* transaction deletes, with rows in buckets and with parameter lookups.
C27_Witness ==
    /\ rowpc = "idle"
    /\ produced = MaxRecords
    /\ Cardinality(DOMAIN truncating.rows) > TruncateLimit
    /\ \E k \in DOMAIN truncating.rows :
          truncating.rows[k].buckets # {} /\ truncating.rows[k].lookups # {}
    /\ Len(bucket_ops) > truncating.ops
    /\ current_data = << >>

\* The bucket ops a step adds.
NewBucketOps == SubSeq(bucket_ops', Len(bucket_ops) + 1, Len(bucket_ops'))

\* saveOperation runs for an UPDATE that changes the replica id of its row.
ReplicaIdUpdate ==
    /\ ReplicateOp
    /\ Head(records).tag = "UPDATE"
    /\ Head(records).beforeId # Head(records).afterId

\* C28: an UPDATE that changes the replica id of a row from k1 to k2 adds, in
\* the flush that replicates it, exactly a REMOVE keyed by k1 in every bucket
\* the current_data document of k1 records, followed by a PUT keyed by k2 in
\* every bucket the new row is evaluated to (a row that is stored and is over
\* the size limit is not evaluated), and no REMOVE keyed by k2; the document
\* of k1 is deleted and the one of k2 is written.
C28_ReplicaIdChangeRemovesOldPutsNew ==
    [][ReplicaIdUpdate =>
         LET k1 == Head(records).beforeId
             k2 == Head(records).afterId
             row == Head(records).after
             recorded == IF k1 \in DOMAIN current_data
                         THEN current_data[k1].buckets ELSE {}
             evaluated == IF storeCurrentData /\ row.size > MAX_ROW_SIZE
                          THEN {} ELSE row.buckets
             ops == NewBucketOps
             removes == {i \in DOMAIN ops : ops[i].op = "REMOVE"}
             puts == {i \in DOMAIN ops : ops[i].op = "PUT"}
         IN  /\ removes \cup puts = DOMAIN ops
             /\ \A i \in removes : ops[i].key = k1 /\ ops[i].bucket \in recorded
             /\ \A b \in recorded :
                   Cardinality({i \in removes : ops[i].bucket = b}) = 1
             /\ \A i \in puts : ops[i].key = k2 /\ ops[i].bucket \in evaluated
             /\ \A b \in evaluated :
                   Cardinality({i \in puts : ops[i].bucket = b}) = 1
             /\ \A i \in removes, j \in puts : i < j
             /\ k1 \notin DOMAIN current_data'
             /\ k2 \in DOMAIN current_data'
             /\ current_data'[k2].buckets = evaluated]_vars

\* INSERT of k1 and an UPDATE of it to k2 have been flushed: the REMOVE of k1
\* is followed by the PUT of k2, in a bucket both rows are in.
C28_Witness ==
    /\ produced = 2
    /\ rowpc = "idle" /\ records = << >>
    /\ DOMAIN current_data = {"k2"}
    /\ \E i \in DOMAIN bucket_ops :
          /\ bucket_ops[i].op = "REMOVE" /\ bucket_ops[i].key = "k1"
          /\ i < Len(bucket_ops)
          /\ bucket_ops[i + 1].op = "PUT" /\ bucket_ops[i + 1].key = "k2"
          /\ bucket_ops[i + 1].bucket = bucket_ops[i].bucket

\* A flush has ended and nothing is left to flush.
Flushed == rowpc = "idle" /\ records = << >>

\* C29 as stated: after every flush, a row has a current_data document
\* exactly when it is in the source table and belongs to at least one bucket.
C29_CurrentDataIffInBucket ==
    Flushed =>
        \A k \in RowIds :
            k \in DOMAIN current_data
                <=> (k \in DOMAIN sourceRows /\ sourceRows[k].buckets # {})

\* C29, amended: after every flush, a row has a current_data document exactly
\* when it is in the source table as of the records flushed, whether or not
\* it belongs to a bucket; the document lists no bucket the row is not in.
C29_CurrentDataIffRowExists ==
    Flushed =>
        /\ DOMAIN current_data = DOMAIN sourceRows
        /\ \A k \in DOMAIN current_data :
              current_data[k].buckets \subseteq sourceRows[k].buckets

\* After a flush, the document of a row that no data query selects: the row
\* in full, with an empty bucket list.
C29_Witness ==
    /\ Flushed
    /\ storeCurrentData
    /\ \E k \in DOMAIN current_data :
          /\ current_data[k].data = "row"
          /\ current_data[k].buckets = {}
          /\ sourceRows[k].buckets = {}

\* saveOperation runs for a record that carries a row (INSERT or UPDATE).
SavesRow == ReplicateOp /\ Head(records).afterId # ""

\* The empty-column placeholder kept for a row that is too large.
Placeholder == [data |-> "empty", buckets |-> {}, lookups |-> {}]

\* What saving a row does when `big` tells the rows that are too large: a
\* row that is too large is kept as the placeholder only, with a message to
\* the error reporter and no PUT; a row of acceptable size is kept in full
\* and gets one PUT in each bucket it evaluates to, also when what was kept
\* of it before was a placeholder; either way nothing is thrown and the
\* flush goes on with the next record.
SavedBySize(big) ==
    LET id  == Head(records).afterId
        row == Head(records).after
        puts == {i \in DOMAIN NewBucketOps : NewBucketOps[i].op = "PUT"}
    IN  /\ rowpc' # "failed"
        /\ records' = Tail(records)
        /\ IF big
             THEN /\ current_data'[id] = Placeholder
                  /\ reported' = reported + 1
                  /\ puts = {}
             ELSE /\ current_data'[id].data =
                        (IF storeCurrentData THEN "row" ELSE "empty")
                  /\ current_data'[id].buckets = row.buckets
                  /\ reported' = reported
                  /\ \A b \in row.buckets :
                        Cardinality({i \in puts :
                            NewBucketOps[i].bucket = b /\ NewBucketOps[i].key = id}) = 1

\* C30 as stated: the rows whose serialization is at or above 15 MiB are the
\* ones kept as a placeholder and reported, without failing the flush.
C30_TooLargeAtOrAboveLimit ==
    [][SavesRow => SavedBySize(Head(records).after.size >= MAX_ROW_SIZE)]_vars

\* C30, amended: where the batch stores the rows (storeCurrentData), the
\* rows whose serialization is above 15 MiB are the ones kept as a
\* placeholder and reported, without failing the flush; a row of exactly
\* 15 MiB, and any row where the rows are not stored, is replicated in full.
C30_TooLargeAboveLimit ==
    [][SavesRow =>
         SavedBySize(storeCurrentData
                        /\ Head(records).after.size > MAX_ROW_SIZE)]_vars

\* A row inserted too large and then updated with an acceptable size: one
\* message was reported, and the only bucket op is the PUT of the update.
C30_Witness ==
    /\ Flushed
    /\ storeCurrentData
    /\ produced = 2
    /\ reported = 1
    /\ DOMAIN current_data = {"k1"}
    /\ current_data["k1"].data = "row"
    /\ bucket_ops = << [op |-> "PUT", bucket |-> "x", key |-> "k1"] >>

(***************************************************************************)
(* Properties of the KeyStore.                                             *)
(***************************************************************************)
\* The keys of the call that have the kid of the token, for a token with a kid.
KeysOfTokenKid ==
    IF keyCall.token.kid = Undefined THEN {}
    ELSE {i \in DOMAIN keyCall.keys : keyCall.keys[i].kid = keyCall.token.kid}

\* The wildcard keys of the call whose algorithm matches and whose signature
\* verifies.
WildcardsThatVerify ==
    {i \in DOMAIN keyCall.keys :
        /\ keyCall.keys[i].kid = Undefined
        /\ keyCall.keys[i].alg = keyCall.token.alg
        /\ keyCall.keys[i].secret = keyCall.token.signedWith}

\* C31: key selection equals the reference. A token with a kid that some key
\* has is verified with that key, and fails with 'Unexpected token algorithm'
\* when the algorithm of that key differs; otherwise the first wildcard key
\* whose algorithm matches and whose signature verifies is used; a key with
\* another kid than the token's, or with a kid for a token without one, is
\* never used.
C31_KeySelectionReference ==
    kpc = "done" =>
        /\ IF KeysOfTokenKid # {}
           THEN LET i == FirstOf(KeysOfTokenKid)
                IN  IF keyCall.keys[i].alg = keyCall.token.alg
                    THEN keyResult.kind = "key" /\ keyResult.key = i
                    ELSE /\ keyResult.kind = "throw"
                         /\ keyResult.error = "Unexpected token algorithm"
           ELSE IF WildcardsThatVerify # {}
                THEN /\ keyResult.kind = "key"
                     /\ keyResult.key = FirstOf(WildcardsThatVerify)
                ELSE keyResult.kind = "throw"
        /\ keyResult.kind = "key" =>
              keyCall.keys[keyResult.key].kid \in {Undefined, keyCall.token.kid}

\* No key of the call matches the token: none has the kid of the token and no
\* wildcard key verifies it.
NoKeyMatches == KeysOfTokenKid = {} /\ WildcardsThatVerify = {}

KeyNotFound == "Could not find an appropriate key in the keystore"

\* C32 as stated: whenever no key matches the token, getCachedKey triggers a
\* refresh of the collector (noKeyFound) and fails with the key-not-found
\* error.
C32_MissRefreshesAndFails ==
    (kpc = "done" /\ NoKeyMatches) =>
        /\ refreshed
        /\ keyResult.kind = "throw"
        /\ keyResult.error = KeyNotFound

\* C32, amended: whenever no key matches the token and the collector reported
\* no error, getCachedKey calls noKeyFound of a collector that has one and
\* fails with the key-not-found error; when the collector reported errors,
\* the first of them is thrown and nothing is refreshed.
C32_MissWithoutErrorsRefreshesAndFails ==
    (kpc = "done" /\ NoKeyMatches) =>
        /\ keyResult.kind = "throw"
        /\ IF keyCall.errors = << >>
           THEN /\ keyResult.error = KeyNotFound
                /\ refreshed <=> keyCall.hasNoKeyFound
           ELSE /\ keyResult.error = keyCall.errors[1]
                /\ ~refreshed

\* A token with a kid no key has, signed with the secret of a key that has
\* another kid: the refresh was triggered.
C32_Witness ==
    /\ kpc = "done"
    /\ NoKeyMatches
    /\ refreshed
    /\ keyCall.token.kid = "other"
    /\ \E i \in DOMAIN keyCall.keys :
          /\ keyCall.keys[i].kid = "k1"
          /\ keyCall.keys[i].secret = keyCall.token.signedWith

(***************************************************************************)
(* Properties of the sync stream: preemption by a new checkpoint.          *)
(***************************************************************************)
RECURSIVE OpsIn(_)
\* The operations in the data lines of a sequence of lines.
OpsIn(frames) ==
    IF frames = << >> THEN 0
    ELSE (IF Head(frames).t = "data" THEN Len(Head(frames).data) ELSE 0)
            + OpsIn(Tail(frames))

\* C33: the stream aborts the abort controller of a checkpoint only when a
\* priority group of that checkpoint has completed, at least MinRaceOps (1000
\* in the code) operations were sent for it, and the speculative next()
\* delivered a further checkpoint and not the end of the iterator; a
\* speculative next() is started only while none is outstanding, and its
\* result is taken as the next checkpoint by the main loop unless the
\* connection ends first.
C33_AbortOnlyAfterPartialSync ==
    [][/\ (abortCtl' /\ ~abortCtl) =>
             /\ gi > 1
             /\ OpsIn(lineFrames) >= MinRaceOps
             /\ HasUpdate
             /\ nextPromise = "race" /\ nextPromise' = "resolved"
             /\ raceValue'.cp = storageCp /\ raceValue'.wcp = writeCp
       /\ (nextPromise' = "race" /\ nextPromise # "race") =>
             /\ nextPromise = "none"
             /\ gi' > 1
             /\ OpsIn(lineFrames') >= MinRaceOps
       /\ (nextPromise = "resolved" /\ nextPromise' # "resolved") =>
             \/ pc' = "ended" /\ connAborted'
             \/ pc = "await" /\ ProcessCheckpoint(raceValue)]_vars

\* A batch of the lowest priority group preempted by a checkpoint that the
\* speculative next() delivered and the main loop has not taken yet.
C33_Witness ==
    /\ abortCtl
    /\ nextPromise = "resolved"
    /\ raceValue.cp > cur.cp
    /\ gi > 1
    /\ pc = "finish"

\* The chunk bucketDataBatch reads in this step carries a targetOp past the
\* checkpoint being synced.
ReadsChunkPastCheckpoint ==
    /\ pc = "chunk" /\ pc' = "sent"
    /\ Head(chunks).targetOp > cur.cp

\* bucketDataBatch ends in this step, after its loop over the chunks.
DataBatchEnds == pc = "finish" /\ pc' = "loopHead"

\* The batch ends with only { data: null, done: true }.
EndsWithNullDone ==
    /\ lineFrames' = Append(lineFrames, Frame("null", cur.cp, 0, "", << >>))
    /\ lastFrame' = lastFrame
    /\ isDone'

\* The batch ends with no item at all, and is not done.
EndsWithNothing ==
    /\ lineFrames' = lineFrames
    /\ lastFrame' = lastFrame
    /\ isDone' = isDone

\* A chunk past the checkpoint is remembered until the batch ends.
InvalidationKept ==
    /\ ReadsChunkPastCheckpoint => checkpointInvalidated'
    /\ (checkpointInvalidated /\ pc \in {"chunk", "sent"} /\ pc' \in {"chunk", "sent", "finish"})
          => checkpointInvalidated'

\* C34 as stated: a batch in which a chunk carried a targetOp greater than the
\* checkpoint being synced emits no checkpoint_complete and no
\* partial_checkpoint_complete: it ends with only a null data item marked done.
C34_InvalidatedEndsWithNullDone ==
    [][/\ InvalidationKept
       /\ (DataBatchEnds /\ checkpointInvalidated) => EndsWithNullDone]_vars

\* C34, amended: such a batch emits no checkpoint_complete and no
\* partial_checkpoint_complete; it ends with only a null data item marked done
\* when no chunk of it had has_more, and with no item at all otherwise.
C34_InvalidatedEmitsNoCompletion ==
    [][/\ InvalidationKept
       /\ (DataBatchEnds /\ checkpointInvalidated) =>
             IF hasMore THEN EndsWithNothing ELSE EndsWithNullDone]_vars

\* The null item marked done was the last item of a batch of the lowest
\* priority group, for a checkpoint below the op its chunk pointed to.
C34_Witness ==
    /\ pc = "loopHead"
    /\ isDone
    /\ lineFrames # << >>
    /\ lineFrames[Len(lineFrames)].t = "null"
    /\ gi = Len(groups)
    /\ lastFrame.t = "data"
    /\ Len(opLog) > cur.cp

\* The main loop takes the checkpoint a speculative next() delivered, the one
\* that preempted the batch, and builds its line.
TakesPreemptingCheckpoint ==
    /\ pc = "await" /\ nextPromise = "resolved"
    /\ nextPromise' = "none"
    /\ pc' \notin {"ended", "error"}

\* Bucket b was to be fetched for the line sent last and rows of it up to
\* that checkpoint were not sent.
Undelivered(b) ==
    /\ b \in pendingBucketDownloads
    /\ b \in DOMAIN bucketDataPositions
    /\ OpsOf(b, bucketDataPositions[b], cur.cp) # << >>

\* C35: a bucket left undelivered by a preempted batch is not lost: the next
\* storage update processed for the connection returns a line that fetches
\* it, whatever the update changes for the client, so that the
\* checkpoint_complete the client receives next covers it.
C35_UndeliveredFetchedByNextUpdate ==
    [][TakesPreemptingCheckpoint =>
          \A b \in Buckets :
             (Undelivered(b) /\ b \in DOMAIN Authoritative(raceValue.cp))
                => (pc' = "group" /\ b \in fetch')]_vars

(***************************************************************************)
(* Properties of MongoBucketBatch: activation of the sync rules            *)
(***************************************************************************)
StateOf(docs) == [g \in Batches |-> docs[g].state]

\* The states of all sync rules after the batch of b activated its own.
StatesAfterActivation(b, states) ==
    [g \in Batches |->
        IF g = b THEN "ACTIVE"
        ELSE IF states[g] \in {"ACTIVE", "ERRORED"} THEN "STOP"
        ELSE states[g]]

\* C36: a batch changes the state of sync rules only when its own are
\* PROCESSING and it has not attempted activation before: in that one step its
\* own become ACTIVE, every other sync rules that were ACTIVE or ERRORED become
\* STOP, all others keep their state, and exactly one sync rules is ACTIVE
\* afterwards; a batch that attempted activation never attempts it again.
C36_ActivatesOnceFromProcessing ==
    [][ \/ \E g \in Batches : SyncRulesStateChange(g)
        \/ /\ \A b \in Batches : needsActivation'[b] => needsActivation[b]
           /\ StateOf(syncRulesDoc') # StateOf(syncRulesDoc) =>
                \E b \in Batches :
                    /\ needsActivation[b] /\ ~needsActivation'[b]
                    /\ syncRulesDoc[b].state = "PROCESSING"
                    /\ StateOf(syncRulesDoc') = StatesAfterActivation(b, StateOf(syncRulesDoc))
                    /\ Cardinality({g \in Batches : syncRulesDoc'[g].state = "ACTIVE"}) = 1
           /\ \A b \in Batches :
                (needsActivation[b] /\ ~needsActivation'[b]
                    /\ syncRulesDoc[b].state = "PROCESSING")
                => syncRulesDoc'[b].state = "ACTIVE" ]_vars

\* The batch of the new sync rules activated them and stopped the old ones;
\* its later calls attempt no activation.
C36_Witness ==
    /\ syncRulesDoc[1].state = "ACTIVE"
    /\ syncRulesDoc[2].state = "STOP"
    /\ ~needsActivation[1]
    /\ last_checkpoint_lsn[1] = MaxLsn

\* A batch attempted activation on sync rules that were no longer PROCESSING:
\* nothing changed.
C36_AttemptLeftUntouched ==
    /\ syncRulesDoc[1].state = "ERRORED"
    /\ syncRulesDoc[2].state = "ACTIVE"
    /\ ~needsActivation[1]

(***************************************************************************)
(* Properties of MongoBucketBatch: the LSN of the last checkpoint          *)
(***************************************************************************)
\* C37: over any sequence of commit, keepalive and markSnapshotDone calls,
\* last_checkpoint_lsn of a batch (the field, and the value it writes to its
\* sync_rules document) never decreases, and a step that changes it sets it to
\* an LSN that is not below the no_checkpoint_before_lsn of the batch.
C37_LastCheckpointLsnMonotone ==
    [][ \A b \in Batches :
          /\ last_checkpoint_lsn[b] # None =>
                /\ last_checkpoint_lsn'[b] # None
                /\ last_checkpoint_lsn'[b] >= last_checkpoint_lsn[b]
          /\ syncRulesDoc[b].last_checkpoint_lsn # None =>
                /\ syncRulesDoc'[b].last_checkpoint_lsn # None
                /\ syncRulesDoc'[b].last_checkpoint_lsn >= syncRulesDoc[b].last_checkpoint_lsn
          /\ last_checkpoint_lsn'[b] # last_checkpoint_lsn[b] =>
                /\ last_checkpoint_lsn'[b] >= no_checkpoint_before_lsn[b]
                /\ syncRulesDoc'[b].last_checkpoint_lsn = last_checkpoint_lsn'[b]
          /\ syncRulesDoc'[b].last_checkpoint_lsn # syncRulesDoc[b].last_checkpoint_lsn =>
                last_checkpoint_lsn'[b] = syncRulesDoc'[b].last_checkpoint_lsn ]_vars

\* A commit behind the last checkpoint was skipped: the batch is at the highest
\* LSN, nothing ever held checkpoints back past LSN 1, and its last call
\* returned false without a notification.
C37_Witness ==
    /\ last_checkpoint_lsn[1] = MaxLsn
    /\ no_checkpoint_before_lsn[1] = 1
    /\ bpc[1] = "idle"
    /\ persisted_op[1] # None
    /\ result[1] = "false"
    /\ ~notified[1]

(***************************************************************************)
(* Properties of the Demultiplexer: an upstream loop that ends late        *)
(***************************************************************************)
\* C38: when the loop over a source ends while its sink map is no longer
\* this.subscribers (its last subscriber left, and a new subscriber may have
\* started a fresh source), it leaves subscribers, abortController and
\* currentSource as they are, does not abort the current source, and neither
\* ends nor errors the sink of any subscriber of the current source.
C38_LateExitLeavesNewSubscription ==
    [][ \A g \in Sources :
          (upstream[g] = "running" /\ upstream'[g] # "running" /\ subscribers # g) =>
              /\ subscribers' = subscribers
              /\ abortController' = abortController
              /\ currentSource' = currentSource
              /\ \A s \in Subs : Registered(s) => sink'[s] = sink[s]
              /\ \A h \in Sources \ {g} :
                    /\ aborted'[h] = aborted[h]
                    /\ upstream'[h] = upstream[h] ]_vars

\* The first source was stopped by the second document of the upstream, after
\* the second source had delivered the first document to a subscriber that is
\* still registered, with the state of the second source in place.
C38_Witness ==
    /\ upstream[1] = "stopped"
    /\ upstream[2] = "running"
    /\ subscribers = 2 /\ currentSource = 2 /\ abortController = 2
    /\ ~aborted[2]
    /\ nextValue = 3
    /\ \E s \in Subs :
        /\ Registered(s)
        /\ ssource[s] = 2
        /\ sink[s] = [value |-> 1, closed |-> "open"]

(***************************************************************************)
(* Properties of the migration agent                                       *)
(***************************************************************************)
\* The first k migrations of the list.
FirstMigrations(k) == {migrations[j] : j \in 1..k}

\* The migrations a run in this direction has to start with, from the entry
\* the log ends with.
MigrationsAhead(direction) ==
    LET ordered == IF direction = "down" THEN Reverse(migrations) ELSE migrations
        index   == findIndex(ordered, mstore.last_run)
        last    == mstore.log[Len(mstore.log)]
    IN  IF ~mstore.defined
        THEN IF direction = "down" THEN << >> ELSE ordered
        ELSE SubSeq(ordered,
                    IF last.direction = direction THEN index + 2 ELSE index + 1,
                    Len(ordered))

\* C39: the applied migrations are a prefix of the list; a run starts past
\* last_run when the log ends with an entry of its own direction and at
\* last_run when it ends with an entry of the other direction, and with no
\* stored state a run down executes nothing; each executed migration is the
\* next one in the direction of the run (up: the first that is not applied,
\* down: the last that is applied), and the store is then saved with it as
\* last_run and with the log extended by its entry.
C39_RunsExecuteNextMigrations ==
    [][ /\ (mpc = "idle" /\ mpc' = "running") =>
              /\ ~mrun'.error
              /\ mrun'.queue = MigrationsAhead(mrun'.direction)
        /\ mrun'.i = mrun.i + 1 =>
              LET k == Cardinality(applied)
                  m == Head(mrun.queue)
              IN  /\ applied = FirstMigrations(k)
                  /\ IF mrun.direction = "up"
                       THEN k < Len(migrations) /\ m = migrations[k + 1]
                       ELSE k >= 1 /\ m = migrations[k]
                  /\ mstore'.defined
                  /\ mstore'.last_run = m
                  /\ Len(mstore'.log) = Len(mstore.log) + 1
                  /\ SubSeq(mstore'.log, 1, Len(mstore.log)) = mstore.log
                  /\ mstore'.log[Len(mstore'.log)].name = m
                  /\ mstore'.log[Len(mstore'.log)].direction = mrun.direction ]_vars

\* The log entries carry timestamps that increase from each entry to the next.
TimestampsIncrease(log) ==
    \A i \in 1..(Len(log) - 1) : log[i].timestamp < log[i + 1].timestamp

\* As long as every entry of the stored log has a later timestamp than the one
\* before it, the runs execute the next migrations as described for C39.
RunsExecuteNextWhileTimestampsIncrease ==
    [][ TimestampsIncrease(mstore'.log) =>
        /\ (mpc = "idle" /\ mpc' = "running") =>
              /\ ~mrun'.error
              /\ mrun'.queue = MigrationsAhead(mrun'.direction)
        /\ mrun'.i = mrun.i + 1 =>
              LET k == Cardinality(applied)
                  m == Head(mrun.queue)
              IN  /\ applied = FirstMigrations(k)
                  /\ IF mrun.direction = "up"
                       THEN k < Len(migrations) /\ m = migrations[k + 1]
                       ELSE k >= 1 /\ m = migrations[k]
                  /\ mstore'.last_run = m ]_vars

(***************************************************************************)
(* Properties of ChangeStreamReplicationJob                                *)
(***************************************************************************)
\* The attempt that is running ends with this error.
AttemptRaises(e) == jpc = "attempt" /\ jpc' = "end" /\ jlog' = Append(jlog, e)

\* What replicate() does apart from the handling of an invalidation error:
\* restartReplication is called only for an invalidation error that ended the
\* last attempt, and at most once; any other error raised while the job is not
\* stopped is not passed on, and while the job stays not stopped the delay and
\* the next attempt follow; the abort controller is aborted when replicate()
\* has returned.
JobRetriesAndAborts ==
    /\ restartCalls' # restartCalls =>
          /\ restartCalls = 0 /\ restartCalls' = 1
          /\ jlog # << >> /\ jlog[Len(jlog)] = "invalidated"
          /\ jpc' = "restart"
    /\ (AttemptRaises("other") /\ ~jaborted) => jthrown' = "none"
    /\ (jpc = "end" /\ jpc' # "end" /\ jthrown = "none" /\ ~jaborted) => jpc' = "delay"
    /\ (jpc = "delay" /\ jpc' # "delay") => jpc' = "loop"
    /\ (jpc = "loop" /\ jpc' # "loop" /\ ~jaborted) => jpc' = "attempt"
    /\ jpc' = "returned" => jaborted'
    /\ (jthrown = "invalidated" /\ jpc' # jpc) => (jpc' = "restart" /\ restartCalls' = 1)

\* C40 as stated: every invalidation error raised by an attempt ends the retry
\* loop and is passed on to the restartReplication call, whether or not the
\* job is stopped; the rest as in JobRetriesAndAborts.
C40_InvalidationAlwaysRestarts ==
    [][ /\ AttemptRaises("invalidated") => jthrown' = "invalidated"
        /\ JobRetriesAndAborts ]_vars

\* C40: an invalidation error raised by an attempt while the job is not
\* stopped ends the retry loop and triggers restartReplication exactly once; any
\* other error never triggers it and, while the job is not stopped, leads to
\* another attempt after the delay; the abort controller is aborted whenever
\* replicate returns.
C40_InvalidationRestartsUnlessStopped ==
    [][ /\ (AttemptRaises("invalidated") /\ ~jaborted) => jthrown' = "invalidated"
        /\ JobRetriesAndAborts ]_vars

\* After an attempt that failed with another error a second attempt was made;
\* it raised the invalidation error, restartReplication was called once and
\* replicate returned.
C40_Witness ==
    /\ jpc = "returned"
    /\ jaborted
    /\ restartCalls = 1
    /\ jlog = << "other", "invalidated" >>

====
